---------------------------- MODULE Spec2Model ----------------------------
(***************************************************************************)
(* A model of linkchex's concurrent link-validation engine:                *)
(*   internal/validator/reporter.go  Validator.ValidateMultiplePages,      *)
(*                                   validatePageInternal,                 *)
(*                                   validateLinksInternal, validateLink   *)
(*   internal/fetcher/client.go      Client.Get, Client.Head               *)
(*   internal/fetcher/ratelimiter.go NewRateLimiter, generate, Wait, Stop*)
(*   internal/fetcher (links)        ExtractLinks, FilterLinks             *)
(*   internal/validator/patterns.go  URLMatcher.ShouldCheck                *)
(* Every goroutine is a process with a program counter; one action is one  *)
(* step between two synchronisation points of the Go code.                 *)
(***************************************************************************)
EXTENDS Integers, Sequences, FiniteSets, TLC

VARIABLES
    pageURLs,     \* []string handed to ValidateMultiplePages
    cfg,          \* Validator configuration: concurrency, checkExternal, urlMatcher, maxRetries
    site,         \* environment: what the server answers for each URL
    rl,           \* the client's RateLimiter: requestsPerSecond, tokens in the bucket
    lim,          \* the RateLimiter's constructor, generate goroutine, ticker and once
    callers,      \* goroutines that call Wait and Stop on the RateLimiter directly
    cli,          \* the command: position in run(), its flags, err, exit code
    sm,           \* sitemap.Parse: the documents, the stack of its calls, the value returned
    ppc,          \* page worker i: program counter
    pcall,        \* page worker i: state of its Client.Get call (attempt, lastErr)
    pageSem,      \* page semaphore: number of slots taken
    pageErr,      \* page worker i: the err validatePageInternal returned (NoError: none)
    links,        \* page worker i: filtered links handed to validateLinksInternal
    lpc,          \* link worker (i, j): program counter
    lcall,        \* link worker (i, j): state of its Client.Head call
    lresp,        \* link worker (i, j): Response returned by Client.Head
    how,          \* link worker (i, j): the return path validateLink took
    linkSem,      \* page i: semaphore of validateLinksInternal, slots taken
    results,      \* page i: the results slice of validateLinksInternal
    urlCache,     \* v.urlCache: map from URL to the cached Result
    cacheMutex,   \* v.cacheMutex: readers holding RLock, writer holding Lock
    resultsChan,  \* buffered channel of pageResult
    chanClosed,   \* resultsChan has been closed
    closerpc,     \* the goroutine that waits for the page workers and closes the channel
    mainpc,       \* the collecting loop of ValidateMultiplePages
    report        \* the ValidationReport under construction

vars == <<pageURLs, cfg, site, rl, lim, callers, cli, sm, ppc, pcall, pageSem, pageErr, links, lpc, lcall,
          lresp, how, linkSem, results, urlCache, cacheMutex, resultsChan,
          chanClosed, closerpc, mainpc, report>>

----------------------------------------------------------------------------
(* Bounds of the model *)

\* most references ExtractLinks finds on one page
MaxLinks == 2
\* largest --concurrency value tried
MaxConcurrency == 2
\* largest --retries value tried
MaxRetries == 1
\* goroutines that use one RateLimiter directly
MaxCallers == 2
\* calls of Wait or Stop one such goroutine makes
MaxCalls == 2
\* refill ticks observed
MaxTicks == 2
MaxPatterns == 2
MaxChildren == 2
MaxDepth == 4

(* Program constants *)

\* pageConcurrency := 10
PageLimit == 10
\* CheckRedirect: if len(via) >= 10
RedirectCap == 10

----------------------------------------------------------------------------
(* URLs.  A URL is its string; ParseHost and Scheme model url.Parse on the *)
(* URLs of the model.                                                       *)

PageA == "https://h1/A"
PageB == "https://h2/B"
UrlOk == "https://h1/ok"
UrlX == "https://h2/x"
UrlMail == "mailto:m"
\* a <loc> and an href with an invalid escape, which url.Parse rejects
PageBad == "https://h1/A%zz"
UrlBad == "https://h1/%zz"

\* nine pages of host h1 whose server does not answer while the run is observed
SlowPages == <<"https://h1/s1", "https://h1/s2", "https://h1/s3", "https://h1/s4",
               "https://h1/s5", "https://h1/s6", "https://h1/s7", "https://h1/s8",
               "https://h1/s9">>

SlowPagePool == {SlowPages[k] : k \in 1..Len(SlowPages)}

PagePool == {PageA, PageB} \cup SlowPagePool
LinkURLPool == {UrlOk, UrlX}

ParseHost(u) ==
    CASE u \in {PageA, UrlOk} \cup SlowPagePool -> "h1"
      [] u \in {PageB, UrlX} -> "h2"
      [] OTHER -> ""

\* url.Parse(u) returns an error
ParseFails(u) == u \in {PageBad, UrlBad}

\* strings.HasPrefix(link.URL, "javascript:") || "mailto:" || "tel:" || "#"
HasSkippedPrefix(u) == u \in {UrlMail}


\* the error value nil
NoError == [msg |-> "nil"]

----------------------------------------------------------------------------
(* internal/fetcher: Link, ExtractLinks, isExternalLink, FilterLinks *)

\* the tag under which a page of the model references its links
TagOn(page) == IF page = PageA THEN "a" ELSE "img"

\* the documents a page may serve: sequences of elements [Tag, URL].  Page A
\* may refer to both link URLs, page B to the first one only; both may hold a
\* mailto: reference
Docs(page) ==
    LET Elements ==
            { [Tag |-> TagOn(page), URL |-> u] :
                u \in IF page = PageA THEN {UrlOk, UrlX, UrlMail} ELSE {UrlOk, UrlMail} }
    IN  UNION { [1..n -> Elements] : n \in 0..MaxLinks }

isExternalLink(base, target) == ParseHost(base) # ParseHost(target)

\* ([]Link, error) for the content [ok, doc] of a page: nil and an error when
\* html.Parse fails or url.Parse rejects the base URL.  Otherwise one Link per
\* element that carries a URL, <link> and <script> elements left out under
\* skipResources; only <a> elements have a text; a URL that url.Parse rejects is
\* kept as it is, with the zero value of IsExternal
ExtractLinks(htmlContent, baseURL, skipResources) ==
    IF ~htmlContent.ok THEN [links |-> <<>>, err |-> [msg |-> "html"]]
    ELSE IF ParseFails(baseURL) THEN [links |-> <<>>, err |-> [msg |-> "parse"]]
    ELSE LET doc == SelectSeq(htmlContent.doc,
                              LAMBDA n : ~(skipResources /\ n.Tag \in {"link", "script"}))
         IN  [links |-> [k \in 1..Len(doc) |->
                           [URL        |-> doc[k].URL,
                            Tag        |-> doc[k].Tag,
                            Text       |-> IF doc[k].Tag = "a" THEN "text" ELSE "",
                            IsExternal |-> IF ParseFails(doc[k].URL) THEN FALSE
                                           ELSE isExternalLink(baseURL, doc[k].URL)]],
              err   |-> NoError]

RECURSIVE FilterFrom(_, _, _, _)
FilterFrom(ls, k, seen, includeExternal) ==
    IF k > Len(ls) THEN <<>>
    ELSE IF ls[k].URL \in seen
         THEN FilterFrom(ls, k + 1, seen, includeExternal)
         ELSE IF (~includeExternal /\ ls[k].IsExternal) \/ HasSkippedPrefix(ls[k].URL)
              THEN FilterFrom(ls, k + 1, seen \cup {ls[k].URL}, includeExternal)
              ELSE <<ls[k]>> \o FilterFrom(ls, k + 1, seen \cup {ls[k].URL}, includeExternal)

\* a variant without the seen map
FilterLinksKeepsDuplicates(ls, includeExternal) ==
    SelectSeq(ls, LAMBDA l : ~(~includeExternal /\ l.IsExternal) /\ ~HasSkippedPrefix(l.URL))

FilterLinks(ls, includeExternal) == FilterFrom(ls, 1, {}, includeExternal)

----------------------------------------------------------------------------
(* internal/validator/patterns.go: a compiled pattern is modelled by the   *)
(* set of URLs its regular expression matches.                             *)

MatchString(pattern, url) == url \in pattern

\* a variant in which a match of an include pattern settles the answer
ShouldCheckIncludeWins(m, url) ==
    IF \E k \in 1..Len(m.includePatterns) : MatchString(m.includePatterns[k], url)
    THEN TRUE
    ELSE ~\E k \in 1..Len(m.excludePatterns) : MatchString(m.excludePatterns[k], url)

ShouldCheck(m, url) ==
    IF Len(m.includePatterns) > 0
       /\ ~\E k \in 1..Len(m.includePatterns) : MatchString(m.includePatterns[k], url)
    THEN FALSE
    ELSE ~\E k \in 1..Len(m.excludePatterns) : MatchString(m.excludePatterns[k], url)

NilMatcher == [isNil |-> TRUE, excludePatterns |-> <<>>, includePatterns |-> <<>>]

\* --exclude with one pattern that matches UrlX
ExcludeX == [isNil |-> FALSE, excludePatterns |-> <<{UrlX}>>, includePatterns |-> <<>>]

----------------------------------------------------------------------------
(* The environment: what one attempt (httpClient.Do) may come back with.   *)

\* a server whose links answer 200, 404 or not at all, and whose pages serve any
\* document, a body that cannot be parsed, a 500 or nothing
FullSite ==
    LET HeadAnswers ==
            { [kind |-> "resp", StatusCode |-> 200, Status |-> "200 OK", Duration |-> 1],
              [kind |-> "resp", StatusCode |-> 404, Status |-> "404 Not Found", Duration |-> 2],
              [kind |-> "err", err |-> "timeout", Duration |-> 3] }
        GetAnswers(page) ==
            { [kind |-> "resp", StatusCode |-> 200, Status |-> "200 OK", Duration |-> 1,
               Body |-> [ok |-> TRUE, doc |-> d]] : d \in Docs(page) }
            \cup
            { [kind |-> "resp", StatusCode |-> 200, Status |-> "200 OK", Duration |-> 1,
               Body |-> [ok |-> FALSE, doc |-> <<>>]],
              [kind |-> "resp", StatusCode |-> 500, Status |-> "500 Internal Server Error",
               Duration |-> 1, Body |-> [ok |-> TRUE, doc |-> <<>>]],
              [kind |-> "err", err |-> "timeout", Duration |-> 3] }
    IN  [head |-> [u \in LinkURLPool |-> HeadAnswers],
         get  |-> [p \in PagePool |-> IF p \in SlowPagePool THEN {} ELSE GetAnswers(p)]]


----------------------------------------------------------------------------
(* internal/fetcher/ratelimiter.go: RateLimiter.Wait *)

\* a variant of Wait without the test of requestsPerSecond: it receives from the
\* token channel, which a limiter without a limit does not have
WaitEnabledNeedsToken == rl.tokens > 0

\* a variant of Wait that also returns when the limiter has been stopped
WaitEnabledOrStopped == rl.requestsPerSecond = 0 \/ rl.tokens > 0 \/ rl.stopped

\* Wait returns at once without a limit, and otherwise needs a token
WaitEnabled == rl.requestsPerSecond = 0 \/ rl.tokens > 0

\* a variant of Wait that returns without taking the token
AfterWaitKeepsToken == rl

\* the limiter after one Wait has returned
AfterWait == IF rl.requestsPerSecond = 0 THEN rl ELSE [rl EXCEPT !.tokens = @ - 1]

\* NewRateLimiter(r) once it has returned: without a limit for r <= 0, and
\* otherwise a bucket of one slot that holds the initial token
NewRateLimiter(r) ==
    IF r <= 0
    THEN [requestsPerSecond |-> 0, tokens |-> 0, stopped |-> FALSE]
    ELSE [requestsPerSecond |-> r, tokens |-> 1, stopped |-> FALSE]

\* NewRateLimiter(0), the limiter NewClient installs
UnlimitedLimiter == NewRateLimiter(0)

\* the goroutines, ticker and once of a limiter that NewRateLimiter has returned and
\* nobody has used: generate runs and the ticker ticks when there is a limit
Constructed(limiter) ==
    [rate |-> limiter.requestsPerSecond, ctor |-> "returned",
     gen |-> IF limiter.requestsPerSecond > 0 THEN "select" ELSE "none",
     ticking |-> limiter.requestsPerSecond > 0, tickC |-> 0, once |-> "idle",
     closes |-> 0, tickerStops |-> 0, ticks |-> 0, served |-> 0]

IdleCallers == [c \in 1..MaxCallers |-> [pc |-> "idle", calls |-> 0]]

\* sitemap.Parse is not running: no document, no call, nothing returned
NothingReturned == [kind |-> "none", urls |-> <<>>]
Parsed == [docs |-> <<>>, stack |-> <<>>, ret |-> NothingReturned]

\* the command when run() has called ValidateMultiplePages on a configured Validator
Validating == [pc |-> "validating", rateLimit |-> 0, exclude |-> "", format |-> "text",
               output |-> FALSE, err |-> "", exit |-> 0 - 1]

----------------------------------------------------------------------------
(* internal/fetcher/client.go: the retry loop shared by Get and Head.      *)
(* A call is [attempt, lastErr] and its history: the number of Wait calls  *)
(* that returned, the number of requests handed to httpClient.Do, and what *)
(* each Do came back with.  One attempt is Wait, then http.NewRequest,     *)
(* then httpClient.Do unless NewRequest has failed.                        *)

\* the CheckRedirect function of NewClient: an error once via holds 10 requests
CheckRedirect(via) == via >= RedirectCap

\* httpClient.Do on what the server does: a chain of redirects is followed, with
\* CheckRedirect asked before each hop, and ends with the error of CheckRedirect
\* or with what the last URL of the chain answers
Do(raw) ==
    IF raw.kind # "chain" THEN raw
    ELSE IF \E k \in 1..raw.hops : CheckRedirect(k)
         THEN [kind |-> "err", err |-> "stopped after 10 redirects", Duration |-> raw.Duration]
         ELSE raw.final

NewCall == [attempt |-> 0, lastErr |-> NoError, waits |-> 0, sent |-> 0, seen |-> <<>>]

\* what the history of a call keeps of an answer
Seen(ans) ==
    IF ans.kind = "resp" THEN [kind |-> "resp", StatusCode |-> ans.StatusCode]
    ELSE [kind |-> "err", err |-> ans.err]

\* req, err := http.NewRequest(method, url, nil): err != nil for a URL that
\* url.Parse rejects
NewRequestFails(url) == ParseFails(url)

\* the error of http.NewRequest, as the outcome of an attempt without a request
RequestError == [kind |-> "err", err |-> "parse", Duration |-> 0]

\* rateLimiter.Wait() has returned and the request is handed to httpClient.Do
Issued(call) == [call EXCEPT !.waits = @ + 1, !.sent = @ + 1]

\* rateLimiter.Wait() has returned and http.NewRequest has failed: lastErr = err;
\* continue.  Nothing is handed to httpClient.Do
NotSent(call) ==
    [call EXCEPT !.waits = @ + 1, !.attempt = @ + 1, !.lastErr = [msg |-> RequestError.err]]

\* the same on the last attempt: the loop ends
NotSentLast(call) == [call EXCEPT !.waits = @ + 1, !.lastErr = [msg |-> RequestError.err]]

\* the attempt that got answer ans was the last one of the loop
LastAttempt(call, ans) == ans.kind = "resp" \/ call.attempt >= cfg.maxRetries

\* err != nil: lastErr = err; continue
NextAttempt(call, ans) ==
    [call EXCEPT !.attempt = @ + 1, !.lastErr = [msg |-> ans.err],
                 !.seen = Append(@, Seen(ans))]

\* the call when the loop has ended on answer ans: with a response Get/Head
\* return it; with err != nil, lastErr = err; continue, and the loop is over
Returned(call, ans) ==
    [call EXCEPT !.seen = Append(@, Seen(ans)),
                 !.lastErr = IF ans.kind = "err" THEN [msg |-> ans.err] ELSE @]

\* a variant whose failure Response wraps the error of the first attempt
ClientResponseFirstError(call, ans, withBody) ==
    IF ans.kind = "resp"
    THEN [StatusCode |-> ans.StatusCode,
          Status     |-> ans.Status,
          Body       |-> IF withBody THEN ans.Body ELSE [ok |-> TRUE, doc |-> <<>>],
          Error      |-> NoError,
          Duration   |-> ans.Duration]
    ELSE [StatusCode |-> 0,
          Status     |-> "Failed",
          Body       |-> [ok |-> TRUE, doc |-> <<>>],
          Error      |-> [msg |-> "failed after attempts", attempts |-> cfg.maxRetries + 1,
                          cause |-> IF Len(call.seen) > 0 THEN [msg |-> call.seen[1].err]
                                    ELSE [msg |-> ans.err]],
          Duration   |-> ans.Duration]

\* the Response Get/Head return when the loop ends on answer ans
ClientResponse(call, ans, withBody) ==
    IF ans.kind = "resp"
    THEN [StatusCode |-> ans.StatusCode,
          Status     |-> ans.Status,
          Body       |-> IF withBody THEN ans.Body ELSE [ok |-> TRUE, doc |-> <<>>],
          Error      |-> NoError,
          Duration   |-> ans.Duration]
    ELSE [StatusCode |-> 0,
          Status     |-> "Failed",
          Body       |-> [ok |-> TRUE, doc |-> <<>>],
          Error      |-> [msg |-> "failed after attempts", attempts |-> cfg.maxRetries + 1,
                          cause |-> Returned(call, ans).lastErr],
          Duration   |-> ans.Duration]

----------------------------------------------------------------------------
(* internal/validator/reporter.go: Result and the three returns of validateLink *)

\* the zero value of Result, as make([]Result, n) fills the slice
ZeroResult ==
    [SourceURL |-> "", TargetURL |-> "", StatusCode |-> 0, Status |-> "", Error |-> NoError,
     IsExternal |-> FALSE, Tag |-> "", LinkText |-> "", Duration |-> 0, IsBroken |-> FALSE]

SkippedResult(sourceURL, link) ==
    [SourceURL |-> sourceURL, TargetURL |-> link.URL, StatusCode |-> 0,
     Status |-> "Skipped (excluded by pattern)", Error |-> NoError,
     IsExternal |-> link.IsExternal, Tag |-> link.Tag, LinkText |-> link.Text,
     Duration |-> 0, IsBroken |-> FALSE]

\* a variant that returns the cached Result as it was stored
CachedResultStale(cached, sourceURL, link) == cached

\* cachedCopy := *cached, with SourceURL, Tag and LinkText overwritten
CachedResult(cached, sourceURL, link) ==
    [cached EXCEPT !.SourceURL = sourceURL, !.Tag = link.Tag, !.LinkText = link.Text]

\* a variant whose status test starts above 400
BrokenRuleAbove400(resp) ==
    IF resp.Error # NoError THEN TRUE
    ELSE IF resp.StatusCode > 400 THEN TRUE
    ELSE FALSE

\* resp.Error != nil, else StatusCode >= 400; a redirect leaves IsBroken false
BrokenRule(resp) ==
    IF resp.Error # NoError THEN TRUE
    ELSE IF resp.StatusCode >= 400 THEN TRUE
    ELSE FALSE

ProbedResult(sourceURL, link, resp) ==
    [SourceURL |-> sourceURL, TargetURL |-> link.URL, StatusCode |-> resp.StatusCode,
     Status |-> resp.Status, Error |-> resp.Error, IsExternal |-> link.IsExternal,
     Tag |-> link.Tag, LinkText |-> link.Text, Duration |-> resp.Duration,
     IsBroken |-> BrokenRule(resp)]

\* the Result the collecting loop appends for a page that returned an error
FailedPageResult(pageURL, err) ==
    [SourceURL |-> "sitemap", TargetURL |-> pageURL, StatusCode |-> 0, Status |-> "Failed",
     Error |-> err, IsExternal |-> FALSE, Tag |-> "", LinkText |-> "", Duration |-> 0,
     IsBroken |-> TRUE]

\* a variant that makes a new map for the entry
CachePutAlone(cache, url, result) == [u \in {url} |-> result]

\* a variant that files the entry under the page the reference was found on
CachePutUnderSource(cache, url, result) ==
    [u \in DOMAIN cache \cup {result.SourceURL} |->
        IF u = result.SourceURL THEN result ELSE cache[u]]

\* a variant that keeps the entry a URL already has
CachePutIfAbsent(cache, url, result) ==
    [u \in DOMAIN cache \cup {url} |-> IF u \in DOMAIN cache THEN cache[u] ELSE result]

\* v.urlCache[url] = &result
CachePut(cache, url, result) ==
    [u \in DOMAIN cache \cup {url} |-> IF u = url THEN result ELSE cache[u]]

\* the err of validatePageInternal for the Response of its Get of pageURL
PageError(resp, pageURL) ==
    IF resp.Error # NoError THEN [msg |-> "failed to fetch page", cause |-> resp.Error]
    ELSE IF resp.StatusCode # 200 THEN [msg |-> "page returned status", code |-> resp.StatusCode]
    ELSE IF ExtractLinks(resp.Body, pageURL, cfg.skipResources).err # NoError
    THEN [msg |-> "failed to extract links",
          cause |-> ExtractLinks(resp.Body, pageURL, cfg.skipResources).err]
    ELSE NoError

\* a variant that gives every page a slot
PageConcurrencyNoLimit(n) == n

\* pageConcurrency: 10, or the number of pages when there are fewer
PageConcurrency(n) == IF n < PageLimit THEN n ELSE PageLimit


----------------------------------------------------------------------------
(* The aggregation loop of ValidateMultiplePages over report.Results *)

\* a variant that takes every Result without a status code for broken
IsBrokenResultOrNoStatus(r) == r.IsBroken \/ r.StatusCode = 0

IsBrokenResult(r) == r.IsBroken
IsWarningResult(r) == ~r.IsBroken /\ r.StatusCode >= 300 /\ r.StatusCode < 400
\* a variant that counts only the 2xx status codes as successes
IsSuccessResult2xx(r) == ~r.IsBroken /\ r.StatusCode >= 200 /\ r.StatusCode < 300

IsSuccessResult(r) == ~IsBrokenResult(r) /\ ~IsWarningResult(r)

Statistics(rep) ==
    LET rs == rep.Results
        idx == 1..Len(rs)
        tags == {rs[k].Tag : k \in idx} \ {""}
        codes == {rs[k].StatusCode : k \in {n \in idx : rs[n].StatusCode > 0}}
    IN  [rep EXCEPT
            !.TotalLinks    = Len(rs),
            !.BrokenLinks   = Cardinality({k \in idx : IsBrokenResult(rs[k])}),
            !.WarningLinks  = Cardinality({k \in idx : IsWarningResult(rs[k])}),
            !.SuccessLinks  = Cardinality({k \in idx : IsSuccessResult(rs[k])}),
            !.ExternalLinks = Cardinality({k \in idx : rs[k].IsExternal}),
            !.InternalLinks = Cardinality({k \in idx : ~rs[k].IsExternal}),
            !.LinksByTag    = [t \in tags |-> Cardinality({k \in idx : rs[k].Tag = t})],
            !.LinksByStatus = [c \in codes |-> Cardinality({k \in idx : rs[k].StatusCode = c})],
            !.UniqueURLs    = Cardinality({rs[k].TargetURL : k \in idx})]

NewReport(n) ==
    [Results |-> <<>>, PagesProcessed |-> n, TotalLinks |-> 0, BrokenLinks |-> 0,
     WarningLinks |-> 0, SuccessLinks |-> 0, InternalLinks |-> 0, ExternalLinks |-> 0,
     LinksByTag |-> <<>>, LinksByStatus |-> <<>>, UniqueURLs |-> 0, CachedLinks |-> 0]

----------------------------------------------------------------------------
(* The state when ValidateMultiplePages has launched its goroutines *)

Pages == 1..Len(pageURLs)

\* the Validator, its client and the goroutines of ValidateMultiplePages; the
\* first `started` page workers have taken their slot and issued their request
InitEngine(pages, config, limiter, server, started) ==
    /\ pageURLs = pages
    /\ cfg = config
    /\ site = server
    /\ rl = limiter
    /\ ppc = [i \in 1..Len(pages) |-> IF i <= started THEN "inflight" ELSE "acquire"]
    /\ pcall = [i \in 1..Len(pages) |-> IF i <= started THEN Issued(NewCall) ELSE NewCall]
    /\ pageSem = started
    /\ pageErr = [i \in 1..Len(pages) |-> NoError]
    /\ links = [i \in 1..Len(pages) |-> <<>>]
    /\ lpc = [i \in 1..Len(pages) |-> <<>>]
    /\ lcall = [i \in 1..Len(pages) |-> <<>>]
    /\ lresp = [i \in 1..Len(pages) |-> <<>>]
    /\ how = [i \in 1..Len(pages) |-> <<>>]
    /\ linkSem = [i \in 1..Len(pages) |-> 0]
    /\ results = [i \in 1..Len(pages) |-> <<>>]
    /\ urlCache = <<>>
    /\ cacheMutex = [readers |-> 0, writer |-> FALSE]
    /\ resultsChan = <<>>
    /\ chanClosed = FALSE
    /\ closerpc = "wait"
    /\ mainpc = "collect"
    /\ report = NewReport(Len(pages))

\* a run on a client whose limiter has been constructed and is used by nobody else
InitRunFrom(pages, config, limiter, server, started) ==
    /\ InitEngine(pages, config, limiter, server, started)
    /\ lim = Constructed(limiter)
    /\ callers = IdleCallers
    /\ cli = [Validating EXCEPT !.rateLimit = limiter.requestsPerSecond]
    /\ sm = Parsed

InitRun(pages, config, limiter, server) == InitRunFrom(pages, config, limiter, server, 0)

\* the page lists and the configurations of the runs explored
PageLists == {<<PageA>>, <<PageA, PageB>>}

Configs ==
    { [concurrency |-> c, checkExternal |-> e, urlMatcher |-> m, maxRetries |-> 0,
       skipResources |-> FALSE] :
        c \in 1..MaxConcurrency, e \in BOOLEAN, m \in {NilMatcher, ExcludeX} }

Init ==
    \E pages \in PageLists, config \in Configs :
        InitRun(pages, config, UnlimitedLimiter, FullSite)

----------------------------------------------------------------------------
(* Page workers: the goroutines of ValidateMultiplePages, each running     *)
(* validatePageInternal and, inside it, validateLinksInternal.             *)

\* semaphore <- struct{}{}
PageAcquire(i) ==
    /\ ppc[i] = "acquire"
    /\ pageSem < PageConcurrency(Len(pageURLs))
    /\ pageSem' = pageSem + 1
    /\ ppc' = [ppc EXCEPT ![i] = "get"]
    /\ UNCHANGED <<sm, cli, lim, callers,
                   pageURLs, cfg, site, rl, pcall, pageErr, links, lpc, lcall, lresp, how,
                   linkSem, results, urlCache, cacheMutex, resultsChan, chanClosed,
                   closerpc, mainpc, report>>

\* the links validatePageInternal hands to validateLinksInternal
PageLinks(resp, pageURL) ==
    FilterLinks(ExtractLinks(resp.Body, pageURL, cfg.skipResources).links, cfg.checkExternal)

\* Get has returned resp: validatePageInternal checks the Response, extracts and
\* filters the links, and validateLinksInternal makes the results slice and
\* starts one goroutine per link
PageFetched(i, resp) ==
    LET err == PageError(resp, pageURLs[i])
        ls == IF err = NoError THEN PageLinks(resp, pageURLs[i]) ELSE <<>>
        NoResponse == [StatusCode |-> 0, Status |-> "", Body |-> [ok |-> TRUE, doc |-> <<>>],
                       Error |-> NoError, Duration |-> 0]
    IN  /\ pageErr' = [pageErr EXCEPT ![i] = err]
        /\ links' = [links EXCEPT ![i] = ls]
        /\ results' = [results EXCEPT ![i] = [j \in 1..Len(ls) |-> ZeroResult]]
        /\ lpc' = [lpc EXCEPT ![i] = [j \in 1..Len(ls) |-> "acquire"]]
        /\ lcall' = [lcall EXCEPT ![i] = [j \in 1..Len(ls) |-> NewCall]]
        /\ lresp' = [lresp EXCEPT ![i] = [j \in 1..Len(ls) |-> NoResponse]]
        /\ how' = [how EXCEPT ![i] = [j \in 1..Len(ls) |-> "none"]]
        /\ ppc' = [ppc EXCEPT ![i] = "wait"]

\* Client.Get, one attempt: rateLimiter.Wait(), then http.NewRequest.  With a
\* request httpClient.Do is under way; without one the loop goes on to the next
\* attempt, and after the last attempt Get returns its failure
PageGetIssue(i) ==
    /\ ppc[i] = "get"
    /\ WaitEnabled
    /\ rl' = AfterWait
    /\ IF ~NewRequestFails(pageURLs[i])
       THEN /\ pcall' = [pcall EXCEPT ![i] = Issued(@)]
            /\ ppc' = [ppc EXCEPT ![i] = "inflight"]
            /\ UNCHANGED <<pageErr, links, lpc, lcall, lresp, how, results>>
       ELSE IF ~LastAttempt(pcall[i], RequestError)
       THEN /\ pcall' = [pcall EXCEPT ![i] = NotSent(@)]
            /\ UNCHANGED <<ppc, pageErr, links, lpc, lcall, lresp, how, results>>
       ELSE /\ pcall' = [pcall EXCEPT ![i] = NotSentLast(@)]
            /\ PageFetched(i, ClientResponse(pcall[i], RequestError, TRUE))
    /\ UNCHANGED <<sm, cli, lim, callers,
                   pageURLs, cfg, site, pageSem, linkSem, urlCache, cacheMutex,
                   resultsChan, chanClosed, closerpc, mainpc, report>>

\* httpClient.Do comes back: a transport error on an attempt that is not the last
\* one loops; otherwise Get returns and validatePageInternal goes on
PageGetReturn(i) ==
    /\ ppc[i] = "inflight"
    /\ \E raw \in site.get[pageURLs[i]] :
        LET ans == Do(raw) IN
        IF ~LastAttempt(pcall[i], ans)
        THEN /\ pcall' = [pcall EXCEPT ![i] = NextAttempt(pcall[i], ans)]
             /\ ppc' = [ppc EXCEPT ![i] = "get"]
             /\ UNCHANGED <<pageErr, links, lpc, lcall, lresp, how, results>>
        ELSE /\ pcall' = [pcall EXCEPT ![i] = Returned(pcall[i], ans)]
             /\ PageFetched(i, ClientResponse(pcall[i], ans, TRUE))
    /\ UNCHANGED <<sm, cli, lim, callers,
                   pageURLs, cfg, site, rl, pageSem, linkSem, urlCache, cacheMutex,
                   resultsChan, chanClosed, closerpc, mainpc, report>>

\* wg.Wait() of validateLinksInternal returns; resultsChan <- pageResult{...}
PageSend(i) ==
    /\ ppc[i] = "wait"
    /\ \A j \in 1..Len(lpc[i]) : lpc[i][j] = "done"
    /\ Len(resultsChan) < Len(pageURLs)
    /\ resultsChan' = Append(resultsChan,
           [results |-> IF pageErr[i] = NoError THEN results[i] ELSE <<>>,
            err |-> pageErr[i], pageURL |-> pageURLs[i], index |-> i - 1])
    /\ ppc' = [ppc EXCEPT ![i] = "release"]
    /\ UNCHANGED <<sm, cli, lim, callers,
                   pageURLs, cfg, site, rl, pcall, pageSem, pageErr, links, lpc, lcall,
                   lresp, how, linkSem, results, urlCache, cacheMutex, chanClosed,
                   closerpc, mainpc, report>>

\* the deferred <-semaphore and wg.Done()
PageRelease(i) ==
    /\ ppc[i] = "release"
    /\ pageSem' = pageSem - 1
    /\ ppc' = [ppc EXCEPT ![i] = "done"]
    /\ UNCHANGED <<sm, cli, lim, callers,
                   pageURLs, cfg, site, rl, pcall, pageErr, links, lpc, lcall, lresp, how,
                   linkSem, results, urlCache, cacheMutex, resultsChan, chanClosed,
                   closerpc, mainpc, report>>


----------------------------------------------------------------------------
(* Link workers: the goroutines of validateLinksInternal, each running     *)
(* validateLink for one index of the results slice.  cacheMutex is a       *)
(* reader/writer lock: RLock waits while a writer holds it, Lock waits      *)
(* while anyone holds it.                                                   *)

LinkWorkers == {w \in Pages \X (1..MaxLinks) : w[2] <= Len(lpc[w[1]])}

\* a variant that never consults the matcher
ExcludedNever(url) == FALSE

\* v.urlMatcher != nil && !v.urlMatcher.ShouldCheck(link.URL)
Excluded(url) == ~cfg.urlMatcher.isNil /\ ~ShouldCheck(cfg.urlMatcher, url)

\* a variant that appends: the Result goes to the first slot still unwritten
AppendResult(i, j, r) ==
    LET free == {k \in 1..Len(results[i]) : how[i][k] = "none"}
        first == CHOOSE k \in free : \A m \in free : k <= m
    IN  [results EXCEPT ![i][first] = r]

\* results[idx] = v.validateLink(sourceURL, l): the worker writes its own index
SetResult(i, j, r) == [results EXCEPT ![i][j] = r]

\* a variant that does not wait for a free slot
LinkAcquireUnbounded(i, j) ==
    /\ lpc[i][j] = "acquire"
    /\ linkSem' = [linkSem EXCEPT ![i] = @ + 1]
    /\ lpc' = [lpc EXCEPT ![i][j] = "validate"]
    /\ UNCHANGED <<sm, cli, lim, callers,
                   pageURLs, cfg, site, rl, ppc, pcall, pageSem, pageErr, links, lcall,
                   lresp, how, results, urlCache, cacheMutex, resultsChan, chanClosed,
                   closerpc, mainpc, report>>

\* semaphore <- struct{}{}
LinkAcquire(i, j) ==
    /\ lpc[i][j] = "acquire"
    /\ linkSem[i] < cfg.concurrency
    /\ linkSem' = [linkSem EXCEPT ![i] = @ + 1]
    /\ lpc' = [lpc EXCEPT ![i][j] = "validate"]
    /\ UNCHANGED <<sm, cli, lim, callers,
                   pageURLs, cfg, site, rl, ppc, pcall, pageSem, pageErr, links, lcall,
                   lresp, how, results, urlCache, cacheMutex, resultsChan, chanClosed,
                   closerpc, mainpc, report>>

\* validateLink up to its first lock operation: an excluded URL returns the
\* Skipped Result at once; any other URL takes the read lock
LinkValidate(i, j) ==
    /\ lpc[i][j] = "validate"
    /\ IF Excluded(links[i][j].URL)
       THEN /\ results' = SetResult(i, j, SkippedResult(pageURLs[i], links[i][j]))
            /\ how' = [how EXCEPT ![i][j] = "skipped"]
            /\ lpc' = [lpc EXCEPT ![i][j] = "release"]
            /\ UNCHANGED cacheMutex
       ELSE /\ ~cacheMutex.writer
            /\ cacheMutex' = [cacheMutex EXCEPT !.readers = @ + 1]
            /\ lpc' = [lpc EXCEPT ![i][j] = "lookup"]
            /\ UNCHANGED <<results, how>>
    /\ UNCHANGED <<sm, cli, lim, callers,
                   pageURLs, cfg, site, rl, ppc, pcall, pageSem, pageErr, links, lcall,
                   lresp, linkSem, urlCache, resultsChan, chanClosed, closerpc, mainpc,
                   report>>

\* a variant that keeps the read lock over the probe after a miss
LinkLookupKeepsLock(i, j) ==
    /\ lpc[i][j] = "lookup"
    /\ IF links[i][j].URL \in DOMAIN urlCache
       THEN /\ results' = SetResult(i, j,
                              CachedResult(urlCache[links[i][j].URL], pageURLs[i], links[i][j]))
            /\ how' = [how EXCEPT ![i][j] = "cached"]
            /\ lpc' = [lpc EXCEPT ![i][j] = "release"]
            /\ cacheMutex' = [cacheMutex EXCEPT !.readers = @ - 1]
       ELSE /\ lpc' = [lpc EXCEPT ![i][j] = "head"]
            /\ UNCHANGED <<results, how, cacheMutex>>
    /\ UNCHANGED <<sm, cli, lim, callers,
                   pageURLs, cfg, site, rl, ppc, pcall, pageSem, pageErr, links, lcall,
                   lresp, linkSem, urlCache, resultsChan, chanClosed, closerpc, mainpc,
                   report>>

\* cached, found := v.urlCache[link.URL]; RUnlock; a hit returns the copy
LinkLookup(i, j) ==
    /\ lpc[i][j] = "lookup"
    /\ cacheMutex' = [cacheMutex EXCEPT !.readers = @ - 1]
    /\ IF links[i][j].URL \in DOMAIN urlCache
       THEN /\ results' = SetResult(i, j,
                              CachedResult(urlCache[links[i][j].URL], pageURLs[i], links[i][j]))
            /\ how' = [how EXCEPT ![i][j] = "cached"]
            /\ lpc' = [lpc EXCEPT ![i][j] = "release"]
       ELSE /\ lpc' = [lpc EXCEPT ![i][j] = "head"]
            /\ UNCHANGED <<results, how>>
    /\ UNCHANGED <<sm, cli, lim, callers,
                   pageURLs, cfg, site, rl, ppc, pcall, pageSem, pageErr, links, lcall,
                   lresp, linkSem, urlCache, resultsChan, chanClosed, closerpc, mainpc,
                   report>>

\* Client.Head, one attempt: rateLimiter.Wait(), then http.NewRequest.  With a
\* request httpClient.Do is under way; without one the loop goes on to the next
\* attempt, and after the last attempt Head returns its failure
LinkHeadIssue(i, j) ==
    /\ lpc[i][j] = "head"
    /\ WaitEnabled
    /\ rl' = AfterWait
    /\ IF ~NewRequestFails(links[i][j].URL)
       THEN /\ lcall' = [lcall EXCEPT ![i][j] = Issued(@)]
            /\ lpc' = [lpc EXCEPT ![i][j] = "inflight"]
            /\ UNCHANGED lresp
       ELSE IF ~LastAttempt(lcall[i][j], RequestError)
       THEN /\ lcall' = [lcall EXCEPT ![i][j] = NotSent(@)]
            /\ UNCHANGED <<lpc, lresp>>
       ELSE /\ lresp' = [lresp EXCEPT ![i][j] = ClientResponse(lcall[i][j], RequestError, FALSE)]
            /\ lcall' = [lcall EXCEPT ![i][j] = NotSentLast(@)]
            /\ lpc' = [lpc EXCEPT ![i][j] = "lock"]
    /\ UNCHANGED <<sm, cli, lim, callers,
                   pageURLs, cfg, site, ppc, pcall, pageSem, pageErr, links,
                   how, linkSem, results, urlCache, cacheMutex, resultsChan, chanClosed,
                   closerpc, mainpc, report>>

\* httpClient.Do comes back: a transport error on an attempt that is not the last
\* one loops; otherwise Head returns its Response
LinkHeadReturn(i, j) ==
    /\ lpc[i][j] = "inflight"
    /\ \E raw \in site.head[links[i][j].URL] :
        LET ans == Do(raw) IN
        IF ~LastAttempt(lcall[i][j], ans)
        THEN /\ lcall' = [lcall EXCEPT ![i][j] = NextAttempt(lcall[i][j], ans)]
             /\ lpc' = [lpc EXCEPT ![i][j] = "head"]
             /\ UNCHANGED lresp
        ELSE /\ lresp' = [lresp EXCEPT ![i][j] = ClientResponse(lcall[i][j], ans, FALSE)]
             /\ lcall' = [lcall EXCEPT ![i][j] = Returned(lcall[i][j], ans)]
             /\ lpc' = [lpc EXCEPT ![i][j] = "lock"]
    /\ UNCHANGED <<sm, cli, lim, callers,
                   pageURLs, cfg, site, rl, ppc, pcall, pageSem, pageErr, links, how,
                   linkSem, results, urlCache, cacheMutex, resultsChan, chanClosed,
                   closerpc, mainpc, report>>

\* a variant that takes the write lock without waiting for the holders
LinkLockNoWait(i, j) ==
    /\ lpc[i][j] = "lock"
    /\ cacheMutex' = [cacheMutex EXCEPT !.writer = TRUE]
    /\ lpc' = [lpc EXCEPT ![i][j] = "store"]
    /\ UNCHANGED <<sm, cli, lim, callers,
                   pageURLs, cfg, site, rl, ppc, pcall, pageSem, pageErr, links, lcall,
                   lresp, how, linkSem, results, urlCache, resultsChan, chanClosed,
                   closerpc, mainpc, report>>

\* v.cacheMutex.Lock()
LinkLock(i, j) ==
    /\ lpc[i][j] = "lock"
    /\ ~cacheMutex.writer
    /\ cacheMutex.readers = 0
    /\ cacheMutex' = [cacheMutex EXCEPT !.writer = TRUE]
    /\ lpc' = [lpc EXCEPT ![i][j] = "store"]
    /\ UNCHANGED <<sm, cli, lim, callers,
                   pageURLs, cfg, site, rl, ppc, pcall, pageSem, pageErr, links, lcall,
                   lresp, how, linkSem, results, urlCache, resultsChan, chanClosed,
                   closerpc, mainpc, report>>

\* v.urlCache[link.URL] = &result; Unlock; return result
LinkStore(i, j) ==
    /\ lpc[i][j] = "store"
    /\ LET result == ProbedResult(pageURLs[i], links[i][j], lresp[i][j])
       IN  /\ urlCache' = CachePut(urlCache, links[i][j].URL, result)
           /\ results' = SetResult(i, j, result)
    /\ cacheMutex' = [cacheMutex EXCEPT !.writer = FALSE]
    /\ how' = [how EXCEPT ![i][j] = "probed"]
    /\ lpc' = [lpc EXCEPT ![i][j] = "release"]
    /\ UNCHANGED <<sm, cli, lim, callers,
                   pageURLs, cfg, site, rl, ppc, pcall, pageSem, pageErr, links, lcall,
                   lresp, linkSem, resultsChan, chanClosed, closerpc, mainpc, report>>

\* a variant whose worker ends without giving its slot back
LinkReleaseKeepsSlot(i, j) ==
    /\ lpc[i][j] = "release"
    /\ lpc' = [lpc EXCEPT ![i][j] = "done"]
    /\ UNCHANGED <<sm, cli, lim, callers,
                   pageURLs, cfg, site, rl, ppc, pcall, pageSem, pageErr, links, lcall,
                   lresp, how, linkSem, results, urlCache, cacheMutex, resultsChan, chanClosed,
                   closerpc, mainpc, report>>

\* the deferred <-semaphore and wg.Done()
LinkRelease(i, j) ==
    /\ lpc[i][j] = "release"
    /\ linkSem' = [linkSem EXCEPT ![i] = @ - 1]
    /\ lpc' = [lpc EXCEPT ![i][j] = "done"]
    /\ UNCHANGED <<sm, cli, lim, callers,
                   pageURLs, cfg, site, rl, ppc, pcall, pageSem, pageErr, links, lcall,
                   lresp, how, results, urlCache, cacheMutex, resultsChan, chanClosed,
                   closerpc, mainpc, report>>

----------------------------------------------------------------------------
(* The closing goroutine and the collecting loop of ValidateMultiplePages  *)

\* wg.Wait(); close(resultsChan)
CloseChan ==
    /\ closerpc = "wait"
    /\ \A i \in Pages : ppc[i] = "done"
    /\ chanClosed' = TRUE
    /\ closerpc' = "done"
    /\ UNCHANGED <<sm, cli, lim, callers,
                   pageURLs, cfg, site, rl, ppc, pcall, pageSem, pageErr, links, lpc, lcall,
                   lresp, how, linkSem, results, urlCache, cacheMutex, resultsChan,
                   mainpc, report>>

\* a variant that records nothing for a page that returned an error
MainReceiveSkipFailed ==
    /\ mainpc = "collect"
    /\ resultsChan # <<>>
    /\ LET pr == Head(resultsChan)
       IN  report' = [report EXCEPT !.Results =
                         IF pr.err # NoError THEN @ ELSE @ \o pr.results]
    /\ resultsChan' = Tail(resultsChan)
    /\ UNCHANGED <<sm, cli, lim, callers,
                   pageURLs, cfg, site, rl, ppc, pcall, pageSem, pageErr, links, lpc, lcall,
                   lresp, how, linkSem, results, urlCache, cacheMutex, chanClosed,
                   closerpc, mainpc>>

\* a variant that puts the Results of the page received in front
MainReceivePrepends ==
    /\ mainpc = "collect"
    /\ resultsChan # <<>>
    /\ LET pr == Head(resultsChan)
       IN  report' = [report EXCEPT !.Results =
                         IF pr.err # NoError
                         THEN <<FailedPageResult(pr.pageURL, pr.err)>> \o @
                         ELSE pr.results \o @]
    /\ resultsChan' = Tail(resultsChan)
    /\ UNCHANGED <<sm, cli, lim, callers,
                   pageURLs, cfg, site, rl, ppc, pcall, pageSem, pageErr, links, lpc, lcall,
                   lresp, how, linkSem, results, urlCache, cacheMutex, chanClosed,
                   closerpc, mainpc>>

\* one iteration of for pr := range resultsChan
MainReceive ==
    /\ mainpc = "collect"
    /\ resultsChan # <<>>
    /\ LET pr == Head(resultsChan)
       IN  report' = [report EXCEPT !.Results =
                         IF pr.err # NoError
                         THEN Append(@, FailedPageResult(pr.pageURL, pr.err))
                         ELSE @ \o pr.results]
    /\ resultsChan' = Tail(resultsChan)
    /\ UNCHANGED <<sm, cli, lim, callers,
                   pageURLs, cfg, site, rl, ppc, pcall, pageSem, pageErr, links, lpc, lcall,
                   lresp, how, linkSem, results, urlCache, cacheMutex, chanClosed,
                   closerpc, mainpc>>

\* a variant that leaves the loop as soon as the channel is empty
MainStatsEarly ==
    /\ mainpc = "collect"
    /\ resultsChan = <<>>
    /\ ~cacheMutex.writer
    /\ report' = Statistics(report)
    /\ cacheMutex' = [cacheMutex EXCEPT !.readers = @ + 1]
    /\ mainpc' = "cachelen"
    /\ UNCHANGED <<sm, cli, lim, callers,
                   pageURLs, cfg, site, rl, ppc, pcall, pageSem, pageErr, links, lpc, lcall,
                   lresp, how, linkSem, results, urlCache, resultsChan, chanClosed,
                   closerpc>>

\* the range loop ends on the closed, drained channel; the statistics loop runs;
\* v.cacheMutex.RLock()
MainStats ==
    /\ mainpc = "collect"
    /\ resultsChan = <<>>
    /\ chanClosed
    /\ ~cacheMutex.writer
    /\ report' = Statistics(report)
    /\ cacheMutex' = [cacheMutex EXCEPT !.readers = @ + 1]
    /\ mainpc' = "cachelen"
    /\ UNCHANGED <<sm, cli, lim, callers,
                   pageURLs, cfg, site, rl, ppc, pcall, pageSem, pageErr, links, lpc, lcall,
                   lresp, how, linkSem, results, urlCache, resultsChan, chanClosed,
                   closerpc>>

\* report.CachedLinks = len(v.urlCache); RUnlock; return report
MainCached ==
    /\ mainpc = "cachelen"
    /\ report' = [report EXCEPT !.CachedLinks = Cardinality(DOMAIN urlCache)]
    /\ cacheMutex' = [cacheMutex EXCEPT !.readers = @ - 1]
    /\ mainpc' = "done"
    /\ UNCHANGED <<sm, cli, lim, callers,
                   pageURLs, cfg, site, rl, ppc, pcall, pageSem, pageErr, links, lpc, lcall,
                   lresp, how, linkSem, results, urlCache, resultsChan, chanClosed,
                   closerpc>>

----------------------------------------------------------------------------
Next ==
    \/ \E i \in Pages : PageAcquire(i)
    \/ \E i \in Pages : PageGetIssue(i)
    \/ \E i \in Pages : PageGetReturn(i)
    \/ \E i \in Pages : PageSend(i)
    \/ \E i \in Pages : PageRelease(i)
    \/ \E w \in LinkWorkers : LinkAcquire(w[1], w[2])
    \/ \E w \in LinkWorkers : LinkValidate(w[1], w[2])
    \/ \E w \in LinkWorkers : LinkLookup(w[1], w[2])
    \/ \E w \in LinkWorkers : LinkHeadIssue(w[1], w[2])
    \/ \E w \in LinkWorkers : LinkHeadReturn(w[1], w[2])
    \/ \E w \in LinkWorkers : LinkLock(w[1], w[2])
    \/ \E w \in LinkWorkers : LinkStore(w[1], w[2])
    \/ \E w \in LinkWorkers : LinkRelease(w[1], w[2])
    \/ CloseChan
    \/ MainReceive
    \/ MainStats
    \/ MainCached

Spec == Init /\ [][Next]_vars


----------------------------------------------------------------------------
(* A run with --rate-limit: the generate goroutine refills the bucket *)

\* a variant of the refill for a bucket without a capacity
RefilledUncapped == [rl EXCEPT !.tokens = @ + 1]

\* select { case rl.tokens <- struct{}{}: default: } on a channel of capacity 1
Refilled == [rl EXCEPT !.tokens = IF @ < 1 THEN @ + 1 ELSE @]

\* case <-rl.ticker.C: a token is added unless the bucket is full
Tick ==
    /\ rl.requestsPerSecond > 0
    /\ ~rl.stopped
    /\ rl' = Refilled
    /\ UNCHANGED <<sm, cli, lim, callers,
                   pageURLs, cfg, site, ppc, pcall, pageSem, pageErr, links, lpc, lcall,
                   lresp, how, linkSem, results, urlCache, cacheMutex, resultsChan,
                   chanClosed, closerpc, mainpc, report>>

\* runs with --exclude and --rate-limit 1
InitLimited ==
    \E pages \in PageLists, config \in {c \in Configs : ~c.urlMatcher.isNil} :
        InitRun(pages, config, NewRateLimiter(1), FullSite)

NextLimited == Next \/ Tick

SpecLimited == InitLimited /\ [][NextLimited]_vars

\* runs without --exclude
InitNoMatcher ==
    \E pages \in PageLists, config \in {c \in Configs : c.urlMatcher.isNil} :
        InitRun(pages, config, UnlimitedLimiter, FullSite)

SpecNoMatcher == InitNoMatcher /\ [][Next]_vars

\* a sitemap of eleven pages, seen from the state in which the workers of the nine
\* slow pages hold their slots and wait for their responses
InitManyPages ==
    InitRunFrom(SlowPages \o <<PageA, PageB>>,
                [concurrency |-> 1, checkExternal |-> TRUE, urlMatcher |-> NilMatcher,
                 maxRetries |-> 0, skipResources |-> FALSE],
                UnlimitedLimiter, FullSite, Len(SlowPages))

SpecPages == (Init \/ InitManyPages) /\ [][Next]_vars


----------------------------------------------------------------------------
(* internal/fetcher/ratelimiter.go, one RateLimiter on its own: the         *)
(* constructor, the generate goroutine, and goroutines that call Wait and  *)
(* Stop.  rl.stopped says that the stop channel is closed; lim.tickC is a  *)
(* tick left in ticker.C when the ticker was stopped.                      *)

engine == <<sm, cli, pageURLs, cfg, site, ppc, pcall, pageSem, pageErr, links, lpc, lcall, lresp, how,
            linkSem, results, urlCache, cacheMutex, resultsChan, chanClosed, closerpc,
            mainpc, report>>

\* a variant that fills the bucket with one token per request of the rate
InitialTokensOfRate == rl.requestsPerSecond

\* rl.tokens <- struct{}{} of the constructor: one token
InitialTokens == IF rl.requestsPerSecond > 0 THEN 1 ELSE 0

\* NewRateLimiter up to go rl.generate(): without a limit it returns at once
RLNew ==
    /\ lim.ctor = "call"
    /\ IF NewRateLimiter(lim.rate).requestsPerSecond = 0
       THEN /\ rl' = NewRateLimiter(lim.rate)
            /\ lim' = [lim EXCEPT !.ctor = "returned"]
       ELSE /\ rl' = [NewRateLimiter(lim.rate) EXCEPT !.tokens = 0]
            /\ lim' = [lim EXCEPT !.ctor = "send", !.gen = "select", !.ticking = TRUE]
    /\ UNCHANGED <<callers, engine>>

\* rl.tokens <- struct{}{}; return rl: the send waits while the bucket is full
RLFirstToken ==
    /\ lim.ctor = "send"
    /\ rl.tokens < 1
    /\ rl' = [rl EXCEPT !.tokens = InitialTokens]
    /\ lim' = [lim EXCEPT !.ctor = "returned"]
    /\ UNCHANGED <<callers, engine>>

\* generate, case <-rl.ticker.C: the ticker fires, or a tick it left is taken
GenTick ==
    /\ lim.gen = "select"
    /\ lim.ticking \/ lim.tickC = 1
    /\ lim.ticks < MaxTicks
    /\ rl' = Refilled
    /\ lim' = [lim EXCEPT !.ticks = @ + 1, !.tickC = IF lim.ticking THEN @ ELSE 0]
    /\ UNCHANGED <<callers, engine>>

\* generate, case <-rl.stop: return
GenStop ==
    /\ lim.gen = "select"
    /\ rl.stopped
    /\ lim' = [lim EXCEPT !.gen = "done"]
    /\ UNCHANGED <<rl, callers, engine>>

\* a goroutine calls rl.Wait()
CallWait(c) ==
    /\ lim.ctor = "returned"
    /\ callers[c].pc = "idle"
    /\ callers[c].calls < MaxCalls
    /\ callers' = [callers EXCEPT ![c] = [pc |-> "wait", calls |-> @.calls + 1]]
    /\ UNCHANGED <<rl, lim, engine>>

\* Wait returns: at once without a limit, otherwise with a token
WaitReturn(c) ==
    /\ callers[c].pc = "wait"
    /\ WaitEnabled
    /\ rl' = AfterWait
    /\ lim' = [lim EXCEPT !.served = @ + 1]
    /\ callers' = [callers EXCEPT ![c].pc = "idle"]
    /\ UNCHANGED engine

\* a goroutine calls rl.Stop()
CallStop(c) ==
    /\ lim.ctor = "returned"
    /\ callers[c].pc = "idle"
    /\ callers[c].calls < MaxCalls
    /\ callers' = [callers EXCEPT ![c] = [pc |-> "stop", calls |-> @.calls + 1]]
    /\ UNCHANGED <<rl, lim, engine>>

\* a variant of once.Do that runs the function on every call
OnceRunsAlways == "run"

\* rl.once.Do: the first call runs the function, a call made while it runs waits
\* for it, a later call returns
OnceRuns ==
    CASE lim.once = "idle" -> "run"
      [] lim.once = "running" -> "wait"
      [] OTHER -> "return"

\* Stop up to close(rl.stop): without a limit it returns at once
StopClose(c) ==
    /\ callers[c].pc = "stop"
    /\ IF rl.requestsPerSecond = 0
       THEN /\ callers' = [callers EXCEPT ![c].pc = "idle"]
            /\ UNCHANGED <<rl, lim>>
       ELSE /\ OnceRuns # "wait"
            /\ IF OnceRuns = "run"
               THEN /\ rl' = [rl EXCEPT !.stopped = TRUE]
                    /\ lim' = [lim EXCEPT !.once = "running", !.closes = @ + 1]
                    /\ callers' = [callers EXCEPT ![c].pc = "closed"]
               ELSE /\ callers' = [callers EXCEPT ![c].pc = "idle"]
                    /\ UNCHANGED <<rl, lim>>
    /\ UNCHANGED engine

\* rl.ticker.Stop(), the end of the once function, and the return of Stop; the
\* stopped ticker may leave one tick in its channel
StopTicker(c) ==
    /\ callers[c].pc = "closed"
    /\ \E left \in 0..1 :
          lim' = [lim EXCEPT !.ticking = FALSE, !.tickC = IF lim.ticking THEN left ELSE @,
                             !.tickerStops = @ + 1, !.once = "done"]
    /\ callers' = [callers EXCEPT ![c].pc = "idle"]
    /\ UNCHANGED <<rl, engine>>

\* NewRateLimiter(r) is called with a negative rate, with no rate or with a
\* rate; no page is validated
InitLimiter ==
    \E r \in {0 - 1, 0, 1, 2} :
        /\ InitEngine(<<>>, [concurrency |-> 1, checkExternal |-> FALSE,
                             urlMatcher |-> NilMatcher, maxRetries |-> 0, skipResources |-> FALSE],
                      [requestsPerSecond |-> 0, tokens |-> 0, stopped |-> FALSE], FullSite, 0)
        /\ callers = IdleCallers
        /\ cli = Validating
        /\ sm = Parsed
        /\ lim = [rate |-> r, ctor |-> "call", gen |-> "none", ticking |-> FALSE,
                  tickC |-> 0, once |-> "idle", closes |-> 0, tickerStops |-> 0,
                  ticks |-> 0, served |-> 0]

NextLimiter ==
    \/ RLNew
    \/ RLFirstToken
    \/ GenTick
    \/ GenStop
    \/ \E c \in 1..MaxCallers : CallWait(c)
    \/ \E c \in 1..MaxCallers : WaitReturn(c)
    \/ \E c \in 1..MaxCallers : CallStop(c)
    \/ \E c \in 1..MaxCallers : StopClose(c)
    \/ \E c \in 1..MaxCallers : StopTicker(c)

SpecLimiter == InitLimiter /\ [][NextLimiter]_vars

\* NewRateLimiter(1) is called
InitLimiterOne == InitLimiter /\ lim.rate = 1

\* the scheduler runs the generate goroutine and the goroutine inside Stop
SpecLimiterFair ==
    /\ InitLimiterOne
    /\ [][NextLimiter]_vars
    /\ WF_vars(GenTick \/ GenStop)
    /\ WF_vars(\E c \in 1..MaxCallers : StopTicker(c))

----------------------------------------------------------------------------
(* Runs that exercise the HTTP client: --retries above 0, --rate-limit 1,   *)
(* one page that references UrlOk or a URL that cannot be parsed, and a    *)
(* server that answers UrlOk with status codes of every class, with        *)
(* transport errors and with redirect chains.  The page itself may be a    *)
(* <loc> that cannot be parsed.                                            *)

Answer(code, status, d) == [kind |-> "resp", StatusCode |-> code, Status |-> status, Duration |-> d]

ClientSite ==
    LET \* a chain of `hops` redirects that ends at a URL answering 200
        Chain(hops) == [kind |-> "chain", hops |-> hops, Duration |-> 4,
                        final |-> Answer(200, "200 OK", 4)]
        ClientHeadAnswers ==
            { Answer(200, "200 OK", 1), Answer(301, "301 Moved Permanently", 1),
              Answer(404, "404 Not Found", 2), Answer(503, "503 Service Unavailable", 2),
              [kind |-> "err", err |-> "timeout", Duration |-> 3],
              Chain(RedirectCap - 1), Chain(RedirectCap) }
        ClientGetAnswers(page) ==
            { [kind |-> "resp", StatusCode |-> 200, Status |-> "200 OK", Duration |-> 1,
               Body |-> [ok |-> TRUE, doc |-> <<[Tag |-> t, URL |-> u]>>]] :
                  t \in {TagOn(page), "link", "script"}, u \in {UrlOk, UrlBad} }
            \cup {[kind |-> "err", err |-> "timeout", Duration |-> 3]}
    IN  [head |-> [u \in LinkURLPool |-> ClientHeadAnswers],
         get  |-> [p \in PagePool \cup {PageBad} |->
                      IF p = PageBad THEN {} ELSE ClientGetAnswers(p)]]

ClientConfigs ==
    { [concurrency |-> c, checkExternal |-> TRUE, urlMatcher |-> NilMatcher, maxRetries |-> n,
       skipResources |-> skip] :
        c \in 1..MaxConcurrency, n \in 0..MaxRetries, skip \in BOOLEAN }

InitClient ==
    \E config \in ClientConfigs, page \in {PageA, PageBad} :
        InitRun(<<page>>, config, NewRateLimiter(1), ClientSite)

SpecClient == InitClient /\ [][NextLimited]_vars

----------------------------------------------------------------------------
(* Runs over results of every class: two pages that both reference UrlOk,  *)
(* page A also the excluded UrlX; page A may answer 500; UrlOk answers     *)
(* with a boundary status code or a transport error.                       *)

ClassSite ==
    LET \* answers with the status codes on both sides of each class boundary
        BoundaryAnswers ==
            { Answer(200, "200 OK", 1), Answer(299, "299", 1),
              Answer(300, "300 Multiple Choices", 1), Answer(399, "399", 1),
              Answer(400, "400 Bad Request", 2) }
    IN
    [head |-> [u \in LinkURLPool |->
                  BoundaryAnswers \cup {[kind |-> "err", err |-> "timeout", Duration |-> 3]}],
     get  |-> [p \in PagePool |->
                  { [kind |-> "resp", StatusCode |-> 200, Status |-> "200 OK", Duration |-> 1,
                     Body |-> [ok |-> TRUE,
                               doc |-> IF p = PageA
                                       THEN <<[Tag |-> "a", URL |-> UrlOk],
                                              [Tag |-> "a", URL |-> UrlX]>>
                                       ELSE <<[Tag |-> "img", URL |-> UrlOk]>>]] }
                  \cup
                  IF p = PageA
                  THEN { [kind |-> "resp", StatusCode |-> 500,
                          Status |-> "500 Internal Server Error", Duration |-> 1,
                          Body |-> [ok |-> TRUE, doc |-> <<>>]] }
                  ELSE {}]]

InitClasses ==
    \E config \in {c \in Configs : ~c.urlMatcher.isNil /\ c.checkExternal} :
        InitRun(<<PageA, PageB>>, config, UnlimitedLimiter, ClassSite)

SpecClasses == InitClasses /\ [][Next]_vars

----------------------------------------------------------------------------
(* The run of the two-page scenario: page A references UrlOk and UrlX, page *)
(* B references UrlOk; the server answers UrlOk with 200 and UrlX with 404. *)
(* Duration is time.Since(startTime) of the call, so two requests for the   *)
(* same URL need not take the same time.                                    *)

ScenarioSite ==
    [head |-> [u \in LinkURLPool |->
                  IF u = UrlOk THEN {Answer(200, "200 OK", 1), Answer(200, "200 OK", 2)}
                  ELSE {Answer(404, "404 Not Found", 1)}],
     get  |-> [p \in PagePool |->
                  { [kind |-> "resp", StatusCode |-> 200, Status |-> "200 OK", Duration |-> 1,
                     Body |-> [ok |-> TRUE,
                               doc |-> IF p = PageA
                                       THEN <<[Tag |-> "a", URL |-> UrlOk],
                                              [Tag |-> "a", URL |-> UrlX]>>
                                       ELSE <<[Tag |-> "a", URL |-> UrlOk]>>]] }]]

InitScenario ==
    \E config \in {c \in Configs : c.urlMatcher.isNil /\ c.checkExternal} :
        InitRun(<<PageA, PageB>>, config, UnlimitedLimiter, ScenarioSite)

SpecScenario == InitScenario /\ [][Next]_vars

----------------------------------------------------------------------------
(* Runs in which requests fail (page B never answers, a probe may time     *)
(* out), under --rate-limit 1 and --retries 1, with the scheduling         *)
(* of the goroutines and of the ticker made explicit: a goroutine that can *)
(* take a step eventually takes one, and the ticker keeps firing.          *)

FailingSite ==
    [head |-> [u \in LinkURLPool |->
                  {Answer(200, "200 OK", 1), [kind |-> "err", err |-> "timeout", Duration |-> 3]}],
     get  |-> [p \in PagePool |->
                  IF p = PageA
                  THEN { [kind |-> "resp", StatusCode |-> 200, Status |-> "200 OK",
                          Duration |-> 1,
                          Body |-> [ok |-> TRUE,
                                    doc |-> <<[Tag |-> "a", URL |-> UrlOk],
                                              [Tag |-> "a", URL |-> UrlX]>>]] }
                  ELSE {[kind |-> "err", err |-> "timeout", Duration |-> 3]}]]

InitFailing ==
    \E config \in {c \in ClientConfigs : c.maxRetries = 1} :
        InitRun(<<PageA, PageB>>, config, NewRateLimiter(1), FailingSite)

SpecFair == InitFailing /\ [][NextLimited]_vars /\ WF_vars(Next) /\ WF_vars(Tick)

----------------------------------------------------------------------------
(* Runs of one page under every URLMatcher of up to MaxPatterns exclude and *)
(* include patterns.                                                        *)

\* the matchers: each compiled pattern matches one of the link URLs, or both
Matchers ==
    LET PatternPool == {{UrlOk}, {UrlX}, {UrlOk, UrlX}}
        PatternLists == UNION { [1..n -> PatternPool] : n \in 0..MaxPatterns }
    IN  { [isNil |-> FALSE, excludePatterns |-> ex, includePatterns |-> inc] :
            ex \in PatternLists, inc \in PatternLists }

InitMatchers ==
    \E m \in Matchers :
        InitRun(<<PageA>>, [concurrency |-> 1, checkExternal |-> TRUE, urlMatcher |-> m,
                           maxRetries |-> 0, skipResources |-> FALSE],
                UnlimitedLimiter, ScenarioSite)

SpecMatchers == InitMatchers /\ [][Next]_vars

----------------------------------------------------------------------------
(* Runs with --concurrency 0 beside the runs with a positive concurrency.  *)
(* make(chan struct{}, 0) is an unbuffered channel: a send needs a receiver *)
(* that is ready, and the only receive is the deferred one of a worker that *)
(* has already sent, so the guard of LinkAcquire is that of the code.      *)

InitAnyConcurrency ==
    \E n \in 0..MaxConcurrency :
        InitRun(<<PageA, PageB>>,
                [concurrency |-> n, checkExternal |-> TRUE, urlMatcher |-> ExcludeX,
                 maxRetries |-> 0, skipResources |-> FALSE],
                UnlimitedLimiter, ClassSite)

SpecAnyConcurrency == InitAnyConcurrency /\ [][Next]_vars

----------------------------------------------------------------------------
(* Runs over pages that reference each other: page A references page B and *)
(* the excluded UrlX; page B references UrlOk, or answers 500 to the Get.  *)

CrossSite ==
    [head |-> [u \in LinkURLPool \cup {PageB} |->
                  {Answer(200, "200 OK", 1), Answer(500, "500 Internal Server Error", 1)}],
     get  |-> [p \in PagePool |->
                  IF p = PageA
                  THEN { [kind |-> "resp", StatusCode |-> 200, Status |-> "200 OK",
                          Duration |-> 1,
                          Body |-> [ok |-> TRUE,
                                    doc |-> <<[Tag |-> "a", URL |-> PageB],
                                              [Tag |-> "a", URL |-> UrlX]>>]] }
                  ELSE { [kind |-> "resp", StatusCode |-> 200, Status |-> "200 OK",
                          Duration |-> 1,
                          Body |-> [ok |-> TRUE, doc |-> <<[Tag |-> "a", URL |-> UrlOk]>>]],
                         [kind |-> "resp", StatusCode |-> 500,
                          Status |-> "500 Internal Server Error", Duration |-> 1,
                          Body |-> [ok |-> TRUE, doc |-> <<>>]] }]]

InitCrossLinks ==
    \E config \in {c \in Configs : ~c.urlMatcher.isNil /\ c.checkExternal} :
        InitRun(<<PageA, PageB>>, config, UnlimitedLimiter, CrossSite)

SpecCrossLinks == InitCrossLinks /\ [][Next]_vars

----------------------------------------------------------------------------
(* Runs over pages that repeat their references: page A holds UrlOk three  *)
(* times around a mailto: reference and UrlX, page B holds UrlX twice and   *)
(* then UrlOk.                                                              *)

RepeatingDoc(page) ==
    IF page = PageA
    THEN <<[Tag |-> "a", URL |-> UrlOk], [Tag |-> "a", URL |-> UrlMail],
           [Tag |-> "img", URL |-> UrlOk], [Tag |-> "a", URL |-> UrlX],
           [Tag |-> "a", URL |-> UrlOk]>>
    ELSE <<[Tag |-> "a", URL |-> UrlX], [Tag |-> "img", URL |-> UrlX],
           [Tag |-> "a", URL |-> UrlOk]>>

RepeatingSite ==
    [head |-> [u \in LinkURLPool |-> {Answer(200, "200 OK", 1)}],
     get  |-> [p \in PagePool |->
                  { [kind |-> "resp", StatusCode |-> 200, Status |-> "200 OK", Duration |-> 1,
                     Body |-> [ok |-> TRUE, doc |-> RepeatingDoc(p)]] }]]

InitRepeating ==
    \E config \in {c \in Configs : c.urlMatcher.isNil} :
        InitRun(<<PageA, PageB>>, config, UnlimitedLimiter, RepeatingSite)

SpecRepeating == InitRepeating /\ [][Next]_vars

----------------------------------------------------------------------------
(* cmd/linkchex/main.go: run() from the parsing of the sitemap to the exit  *)
(* of the process.  cli.exit is -1 while the process runs.                 *)

GlobOk == "*/ok"
BadRegex == "^("

\* compilePattern: a pattern that starts with ^ is compiled as it is and may be
\* refused; a glob is quoted first and always compiles
Compiles(pattern) == pattern # BadRegex

\* the URLs of the model that the compiled pattern matches
CompilePattern(pattern) == IF pattern = GlobOk THEN {UrlOk} ELSE {}

\* NewURLMatcher(patterns, nil)
NewURLMatcher(pattern) ==
    [isNil |-> FALSE, excludePatterns |-> <<CompilePattern(pattern)>>, includePatterns |-> <<>>]

\* FormatReport: the switch on format
FormatSupported(format) == format \in {"text", "json", "csv"}

\* a variant of the exit code that looks at errors only
ExitCodeErrorsOnly(err, rep) == IF err # "" THEN 1 ELSE 0

\* main and the end of run: os.Exit(1) for an error or for broken links
ExitCode(err, rep) ==
    IF err # "" THEN 1
    ELSE IF rep.BrokenLinks > 0 THEN 1
    ELSE 0

Exited(err) == [cli EXCEPT !.pc = "exited", !.err = err, !.exit = ExitCode(err, report)]

\* sitemap.Parse of the sitemap: it returns the page list or an error
RunSitemap ==
    /\ cli.pc = "sitemap"
    /\ \E ok \in BOOLEAN :
          cli' = IF ok THEN [cli EXCEPT !.pc = "configure"]
                 ELSE Exited("failed to parse sitemap")
    /\ UNCHANGED <<sm, pageURLs, cfg, site, rl, lim, callers, ppc, pcall, pageSem, pageErr, links,
                   lpc, lcall, lresp, how, linkSem, results, urlCache, cacheMutex,
                   resultsChan, chanClosed, closerpc, mainpc, report>>

\* NewValidator, whose client has the limiter of NewClient, and with --rate-limit
\* above 0 v.SetRateLimit up to its call of NewRateLimiter: Client.SetRateLimit
\* calls Stop on the limiter of NewClient, which has no limit, so that Stop
\* returns at once, and the constructor of the new limiter is entered
RunConfigure ==
    /\ cli.pc = "configure"
    /\ rl = UnlimitedLimiter
    /\ IF cli.rateLimit > 0
       THEN /\ lim' = [Constructed(UnlimitedLimiter) EXCEPT !.rate = cli.rateLimit,
                                                            !.ctor = "call"]
            /\ cli' = [cli EXCEPT !.pc = "ratelimit"]
       ELSE /\ cli' = [cli EXCEPT !.pc = "patterns"]
            /\ UNCHANGED lim
    /\ UNCHANGED <<sm, pageURLs, cfg, site, rl, callers, ppc, pcall, pageSem, pageErr, links,
                   lpc, lcall, lresp, how, linkSem, results, urlCache, cacheMutex,
                   resultsChan, chanClosed, closerpc, mainpc, report>>

\* NewRateLimiter has returned and c.rateLimiter is the new limiter, or there is
\* no --rate-limit; then SetExcludePatterns with --exclude
RunSetExcludePatterns ==
    /\ \/ cli.pc = "patterns"
       \/ cli.pc = "ratelimit" /\ lim.ctor = "returned"
    /\ IF cli.exclude # "" /\ ~Compiles(cli.exclude)
       THEN /\ cli' = Exited("invalid exclude pattern")
            /\ UNCHANGED cfg
       ELSE /\ cli' = [cli EXCEPT !.pc = "validating"]
            /\ cfg' = IF cli.exclude # ""
                      THEN [cfg EXCEPT !.urlMatcher = NewURLMatcher(cli.exclude)]
                      ELSE cfg
    /\ UNCHANGED <<sm, pageURLs, site, rl, lim, callers, ppc, pcall, pageSem, pageErr, links,
                   lpc, lcall, lresp, how, linkSem, results, urlCache, cacheMutex,
                   resultsChan, chanClosed, closerpc, mainpc, report>>

\* v.ValidateMultiplePages(allURLs, config.CheckExternal): the steps of the engine
RunValidate ==
    /\ cli.pc = "validating"
    /\ Next

\* FormatReport(report, config.Format), and the output on stdout
RunFormat ==
    /\ cli.pc = "validating"
    /\ mainpc = "done"
    /\ cli' = IF ~FormatSupported(cli.format) THEN Exited("failed to format report")
              ELSE IF cli.output THEN [cli EXCEPT !.pc = "write"]
              ELSE Exited("")
    /\ UNCHANGED <<sm, pageURLs, cfg, site, rl, lim, callers, ppc, pcall, pageSem, pageErr, links,
                   lpc, lcall, lresp, how, linkSem, results, urlCache, cacheMutex,
                   resultsChan, chanClosed, closerpc, mainpc, report>>

\* WriteReportToFile: os.WriteFile may fail
RunWrite ==
    /\ cli.pc = "write"
    /\ \E ok \in BOOLEAN :
          cli' = IF ok THEN Exited("") ELSE Exited("failed to write report to file")
    /\ UNCHANGED <<sm, pageURLs, cfg, site, rl, lim, callers, ppc, pcall, pageSem, pageErr, links,
                   lpc, lcall, lresp, how, linkSem, results, urlCache, cacheMutex,
                   resultsChan, chanClosed, closerpc, mainpc, report>>

\* one page that references UrlOk; the page may answer 500 and UrlOk 200 or 404
RunSite ==
    [head |-> [u \in LinkURLPool |-> {Answer(200, "200 OK", 1), Answer(404, "404 Not Found", 2)}],
     get  |-> [p \in PagePool |->
                  { [kind |-> "resp", StatusCode |-> 200, Status |-> "200 OK", Duration |-> 1,
                     Body |-> [ok |-> TRUE, doc |-> <<[Tag |-> "a", URL |-> UrlOk]>>]],
                    [kind |-> "resp", StatusCode |-> 500,
                     Status |-> "500 Internal Server Error", Duration |-> 1,
                     Body |-> [ok |-> TRUE, doc |-> <<>>]] }]]

\* the process starts with a command line: --rate-limit, --exclude, --format,
\* --output
InitCommand ==
    \E line \in { [pc |-> "sitemap", rateLimit |-> r, exclude |-> x, format |-> f,
                    output |-> o, err |-> "", exit |-> 0 - 1] :
                      r \in {0, 1}, x \in {"", GlobOk, BadRegex},
                      f \in {"text", "json", "csv", "xml"}, o \in BOOLEAN } :
        /\ InitEngine(<<PageA>>, [concurrency |-> 1, checkExternal |-> FALSE,
                                  urlMatcher |-> NilMatcher, maxRetries |-> 0,
                                  skipResources |-> FALSE],
                      UnlimitedLimiter, RunSite, 0)
        /\ lim = Constructed(UnlimitedLimiter)
        /\ callers = IdleCallers
        /\ cli = line
        /\ sm = Parsed

NextCommand ==
    \/ RunSitemap
    \/ RunConfigure
    \/ RLNew
    \/ RLFirstToken
    \/ Tick
    \/ RunSetExcludePatterns
    \/ RunValidate
    \/ RunFormat
    \/ RunWrite

SpecCommand == InitCommand /\ [][NextCommand]_vars

----------------------------------------------------------------------------
(* internal/sitemap/parser.go: Parse and parseSitemapIndex.  A document is  *)
(* a urlset with its <loc> values, a sitemap index with the locations of   *)
(* its children, or something that cannot be loaded or parsed.  sm.stack    *)
(* holds the calls of Parse that are under way, the innermost last: loc is  *)
(* the argument, k = 0 says that the document is still to be read, k >= 1   *)
(* is the child parseSitemapIndex is at, and acc is its allURLs.           *)

SitemapRoot == "https://h1/sitemap.xml"
Locations == {SitemapRoot, "https://h1/sitemap-1.xml", "https://h1/sitemap-2.xml"}

\* the documents a location may serve
SitemapDocs ==
    {[kind |-> "bad", urls |-> <<>>, children |-> <<>>]}
    \cup { [kind |-> "urlset", urls |-> us, children |-> <<>>] :
             us \in {<<PageA>>, <<PageB, "", PageA>>} }
    \cup { [kind |-> "index", urls |-> <<>>, children |-> cs] :
             cs \in UNION { [1..n -> Locations] : n \in 0..MaxChildren } }

\* for _, url := range urlSet.URLs { if url.Loc != "" { urls = append(urls, url.Loc) } }
Locs(urls) == SelectSeq(urls, LAMBDA u : u # "")

NewFrame(loc) == [loc |-> loc, k |-> 0, acc |-> <<>>]
Top == sm.stack[Len(sm.stack)]
Returning(kind, urls) ==
    [sm EXCEPT !.stack = SubSeq(sm.stack, 1, Len(sm.stack) - 1),
               !.ret = [kind |-> kind, urls |-> urls]]

\* Parse from its entry to the return of a urlset, to an error, or to the call of
\* parseSitemapIndex; an index without children fails to parse as a urlset
ParseDocument ==
    /\ sm.stack # <<>>
    /\ sm.ret = NothingReturned
    /\ Top.k = 0
    /\ LET doc == sm.docs[Top.loc]
       IN  sm' = CASE doc.kind = "bad" -> Returning("err", <<>>)
                   [] doc.kind = "index" /\ Len(doc.children) > 0 ->
                          [sm EXCEPT !.stack[Len(sm.stack)].k = 1]
                   [] doc.kind = "index" -> Returning("err", <<>>)
                   [] OTHER -> Returning("ok", Locs(doc.urls))
    /\ UNCHANGED <<cli, pageURLs, cfg, site, rl, lim, callers, ppc, pcall, pageSem, pageErr,
                   links, lpc, lcall, lresp, how, linkSem, results, urlCache, cacheMutex,
                   resultsChan, chanClosed, closerpc, mainpc, report>>

\* parseSitemapIndex: urls, err := Parse(sitemap.Loc)
ParseChild ==
    /\ sm.stack # <<>>
    /\ sm.ret = NothingReturned
    /\ Top.k >= 1
    /\ Top.k <= Len(sm.docs[Top.loc].children)
    /\ Len(sm.stack) < MaxDepth
    /\ sm' = [sm EXCEPT !.stack = Append(@, NewFrame(sm.docs[Top.loc].children[Top.k]))]
    /\ UNCHANGED <<cli, pageURLs, cfg, site, rl, lim, callers, ppc, pcall, pageSem, pageErr,
                   links, lpc, lcall, lresp, how, linkSem, results, urlCache, cacheMutex,
                   resultsChan, chanClosed, closerpc, mainpc, report>>

\* the call of a child has returned to the loop of parseSitemapIndex:
\* if err != nil { continue }; allURLs = append(allURLs, urls...)
ParseChildReturn ==
    /\ sm.stack # <<>>
    /\ sm.ret # NothingReturned
    /\ sm' = [sm EXCEPT !.stack[Len(sm.stack)] =
                            [Top EXCEPT !.k = @ + 1,
                                        !.acc = IF sm.ret.kind = "err" THEN @
                                                ELSE @ \o sm.ret.urls],
                        !.ret = NothingReturned]
    /\ UNCHANGED <<cli, pageURLs, cfg, site, rl, lim, callers, ppc, pcall, pageSem, pageErr,
                   links, lpc, lcall, lresp, how, linkSem, results, urlCache, cacheMutex,
                   resultsChan, chanClosed, closerpc, mainpc, report>>

\* the loop of parseSitemapIndex is over: return allURLs, nil
ParseIndexReturn ==
    /\ sm.stack # <<>>
    /\ sm.ret = NothingReturned
    /\ Top.k > Len(sm.docs[Top.loc].children)
    /\ sm' = Returning("ok", Top.acc)
    /\ UNCHANGED <<cli, pageURLs, cfg, site, rl, lim, callers, ppc, pcall, pageSem, pageErr,
                   links, lpc, lcall, lresp, how, linkSem, results, urlCache, cacheMutex,
                   resultsChan, chanClosed, closerpc, mainpc, report>>

\* sitemap.Parse(SitemapRoot) is called on some assignment of documents
InitSitemap ==
    /\ InitEngine(<<>>, [concurrency |-> 1, checkExternal |-> FALSE,
                         urlMatcher |-> NilMatcher, maxRetries |-> 0, skipResources |-> FALSE],
                  UnlimitedLimiter, FullSite, 0)
    /\ lim = Constructed(UnlimitedLimiter)
    /\ callers = IdleCallers
    /\ cli = [Validating EXCEPT !.pc = "sitemap"]
    /\ \E docs \in [Locations -> SitemapDocs] :
          sm = [docs |-> docs, stack |-> <<NewFrame(SitemapRoot)>>, ret |-> NothingReturned]

NextSitemap ==
    \/ ParseDocument
    \/ ParseChild
    \/ ParseChildReturn
    \/ ParseIndexReturn

SpecSitemap == InitSitemap /\ [][NextSitemap]_vars

----------------------------------------------------------------------------
(* Vocabulary of the properties *)

LinkOf(w) == links[w[1]][w[2]]

Classification(r) ==
    IF r.IsBroken THEN "broken"
    ELSE IF r.StatusCode >= 300 /\ r.StatusCode < 400 THEN "warning"
    ELSE "success"

ReportResults == {report.Results[k] : k \in 1..Len(report.Results)}

----------------------------------------------------------------------------
(* C1: for every link URL at most one validateLink call of the run issues  *)
(* a HEAD probe.  The code lets two page pipelines miss the cache for the   *)
(* same URL before either has stored its outcome.                           *)
C1_EachURLProbedOnce ==
    LET \* worker w has called Client.Head and the call has issued a request
        HeadCalled(w) ==
            \/ lpc[w[1]][w[2]] \in {"inflight", "lock", "store"}
            \/ lpc[w[1]][w[2]] = "head" /\ lcall[w[1]][w[2]].attempt > 0
            \/ how[w[1]][w[2]] = "probed"
    IN  \A u \in LinkURLPool :
        Cardinality({w \in LinkWorkers : LinkOf(w).URL = u /\ HeadCalled(w)}) <= 1

(* C2: when the run is over, every URL referenced by a fetched page has a  *)
(* cache entry, and every Result with that TargetURL carries the            *)
(* StatusCode, Error and Duration of that entry.                            *)
C2_ResultsMatchCacheEntry ==
    mainpc = "done" =>
        \A i \in Pages : \A j \in 1..Len(links[i]) :
            LET u == links[i][j].URL
            IN  /\ u \in DOMAIN urlCache
                /\ \A r \in ReportResults :
                      r.TargetURL = u =>
                          /\ r.StatusCode = urlCache[u].StatusCode
                          /\ r.Error = urlCache[u].Error
                          /\ r.Duration = urlCache[u].Duration

(* C3: dedup invariant: the Results of a URL referenced by two or more     *)
(* pages agree on StatusCode, Error and classification.                     *)
C3_DedupInvariant ==
    \A r1 \in ReportResults, r2 \in ReportResults :
        (r1.TargetURL = r2.TargetURL /\ r1.SourceURL # r2.SourceURL) =>
            /\ r1.StatusCode = r2.StatusCode
            /\ r1.Error = r2.Error
            /\ Classification(r1) = Classification(r2)

(* C4: the number of link probes in flight across all pages never exceeds  *)
(* the configured link concurrency.                                         *)
C4_GlobalProbeBound ==
    Cardinality({w \in LinkWorkers : lpc[w[1]][w[2]] = "inflight"}) <= cfg.concurrency

(* C5: within one validateLinksInternal call the slots taken never exceed  *)
(* the configured concurrency, and the slots taken are exactly those of the *)
(* workers between their acquire and their release: each worker takes one   *)
(* slot and gives it back once, after validateLink has returned.            *)
C5_LinkSemaphore ==
    LET \* workers of page i that hold a slot of its semaphore
        SlotHolders(i) ==
            {j \in 1..Len(lpc[i]) :
                lpc[i][j] \in {"validate", "lookup", "head", "inflight", "lock", "store",
                               "release"}}
    IN
    \A i \in Pages :
        /\ linkSem[i] <= cfg.concurrency
        /\ linkSem[i] = Cardinality(SlotHolders(i))
        /\ \A j \in 1..Len(lpc[i]) :
              lpc[i][j] \in {"release", "done"} <=> how[i][j] # "none"

\* a worker waits for a slot while the semaphore of its page is full
C5_Witness ==
    \E i \in Pages :
        /\ linkSem[i] = cfg.concurrency
        /\ \E j \in 1..Len(lpc[i]) : lpc[i][j] = "acquire"
        /\ \E j \in 1..Len(lpc[i]) : lpc[i][j] = "inflight"


(* C6: the page pipelines that hold a page slot are never more than        *)
(* min(10, number of pages); the slots taken are exactly those of the page  *)
(* workers between acquire and release, so further pages wait.              *)
C6_PageSlots ==
    LET n == Len(pageURLs)
        ceiling == IF PageLimit < n THEN PageLimit ELSE n
        \* page workers that hold a page slot
        PageSlotHolders == {i \in Pages : ppc[i] \in {"get", "inflight", "wait", "release"}}
    IN  /\ Cardinality(PageSlotHolders) <= ceiling
        /\ pageSem = Cardinality(PageSlotHolders)

\* more pages than the limit: all ten slots are taken and a page waits for one
C6_Witness ==
    /\ Len(pageURLs) > PageLimit
    /\ pageSem = PageLimit
    /\ \E i \in Pages : ppc[i] = "acquire"

(* C7: order preservation: the results slice of a page has one element per *)
(* filtered link, and element j is the Result of link j (or still the zero *)
(* value) whatever the order in which the workers finish; the slice sent    *)
(* to the collecting loop is in link order.                                 *)
C7_OrderPreservation ==
    /\ \A i \in Pages :
          /\ Len(results[i]) = Len(links[i])
          /\ \A j \in 1..Len(links[i]) :
                IF how[i][j] = "none"
                THEN results[i][j] = ZeroResult
                ELSE /\ results[i][j].TargetURL = links[i][j].URL
                     /\ results[i][j].Tag = links[i][j].Tag
                     /\ results[i][j].LinkText = links[i][j].Text
                     /\ results[i][j].SourceURL = pageURLs[i]
    /\ \A k \in 1..Len(resultsChan) :
          LET pr == resultsChan[k]
          IN  pr.err = NoError =>
                 /\ Len(pr.results) = Len(links[pr.index + 1])
                 /\ \A j \in 1..Len(pr.results) :
                       pr.results[j].TargetURL = links[pr.index + 1][j].URL

\* the worker of the second link has returned before the worker of the first
C7_Witness ==
    \E i \in Pages :
        /\ Len(links[i]) = 2
        /\ how[i][2] # "none"
        /\ how[i][1] = "none"

(* C8: page isolation: when the run is over every page has been processed; *)
(* a page whose fetch failed has exactly one Result, the synthetic one      *)
(* (SourceURL "sitemap", TargetURL the page, StatusCode 0, IsBroken), and   *)
(* every page that was fetched has one Result per filtered reference.       *)
C8_PageIsolation ==
    mainpc = "done" =>
        \A i \in Pages :
            LET mine == {k \in 1..Len(report.Results) :
                            \/ report.Results[k].TargetURL = pageURLs[i]
                            \/ report.Results[k].SourceURL = pageURLs[i]}
            IN  /\ ppc[i] = "done"
                /\ IF pageErr[i] # NoError
                   THEN /\ Cardinality(mine) = 1
                        /\ \A k \in mine :
                              /\ report.Results[k].SourceURL = "sitemap"
                              /\ report.Results[k].TargetURL = pageURLs[i]
                              /\ report.Results[k].StatusCode = 0
                              /\ report.Results[k].IsBroken
                   ELSE /\ Cardinality(mine) = Len(links[i])
                        /\ \A j \in 1..Len(links[i]) :
                              /\ how[i][j] # "none"
                              /\ \E k \in mine :
                                    report.Results[k].TargetURL = links[i][j].URL

\* a finished run in which one page failed and the other had a link probed
C8_Witness ==
    /\ mainpc = "done"
    /\ \E i \in Pages : pageErr[i] # NoError
    /\ \E i \in Pages : pageErr[i] = NoError /\ \E j \in 1..Len(links[i]) : how[i][j] = "probed"

(* C9: validateLink on a URL the matcher excludes returns the Skipped      *)
(* Result in one step that leaves the cache, the cache lock and the rate    *)
(* limiter as they were and starts no request.                              *)
C9_SkipTouchesNothing ==
    [][\A w \in LinkWorkers :
          ( /\ lpc[w[1]][w[2]] = "validate"
            /\ lpc'[w[1]][w[2]] # "validate"
            /\ ~cfg.urlMatcher.isNil
            /\ ~ShouldCheck(cfg.urlMatcher, LinkOf(w).URL) )
          => /\ urlCache' = urlCache
             /\ cacheMutex' = cacheMutex
             /\ rl' = rl
             /\ lpc'[w[1]][w[2]] = "release"
             /\ results'[w[1]][w[2]].StatusCode = 0
             /\ results'[w[1]][w[2]].Error = NoError
             /\ results'[w[1]][w[2]].IsBroken = FALSE
             /\ results'[w[1]][w[2]].Duration = 0
             /\ results'[w[1]][w[2]].TargetURL = LinkOf(w).URL
             /\ results'[w[1]][w[2]].Status = "Skipped (excluded by pattern)"]_vars

\* a reference was skipped while the bucket held its token
C9_Witness ==
    \E w \in LinkWorkers :
        /\ how[w[1]][w[2]] = "skipped"
        /\ lpc[w[1]][w[2]] = "release"
        /\ rl.tokens = 1

(* C10: a cache hit issues no probe and leaves the cache unchanged; the    *)
(* Result has the cached StatusCode, Status, Error, Duration and IsBroken   *)
(* and the SourceURL, Tag and LinkText of the current occurrence.           *)
C10_CacheHit ==
    [][\A w \in LinkWorkers :
          ( /\ lpc[w[1]][w[2]] = "lookup"
            /\ lpc'[w[1]][w[2]] # "lookup"
            /\ LinkOf(w).URL \in DOMAIN urlCache )
          => LET c == urlCache[LinkOf(w).URL]
                 r == results'[w[1]][w[2]]
             IN  /\ urlCache' = urlCache
                 /\ rl' = rl
                 /\ lpc'[w[1]][w[2]] = "release"
                 /\ r.TargetURL = LinkOf(w).URL
                 /\ r.StatusCode = c.StatusCode
                 /\ r.Status = c.Status
                 /\ r.Error = c.Error
                 /\ r.Duration = c.Duration
                 /\ r.IsBroken = c.IsBroken
                 /\ r.SourceURL = pageURLs[w[1]]
                 /\ r.Tag = LinkOf(w).Tag
                 /\ r.LinkText = LinkOf(w).Text]_vars

\* a Result served from an entry that another page's occurrence had stored
C10_Witness ==
    \E w \in LinkWorkers :
        /\ how[w[1]][w[2]] = "cached"
        /\ LinkOf(w).URL \in DOMAIN urlCache
        /\ urlCache[LinkOf(w).URL].SourceURL # pageURLs[w[1]]
        /\ urlCache[LinkOf(w).URL].Tag # results[w[1]][w[2]].Tag
        /\ results[w[1]][w[2]].StatusCode = urlCache[LinkOf(w).URL].StatusCode

----------------------------------------------------------------------------
\* the class the rule gives to an outcome with this Error and StatusCode
RuleClass(err, code) ==
    IF err # NoError \/ code >= 400 THEN "broken"
    ELSE IF code >= 300 /\ code < 400 THEN "warning"
    ELSE "success"

\* C11: every probed or cached Result is classified by the rule on its Error and
\* StatusCode (Broken for an error or a code from 400, Warning for 300..399,
\* Success otherwise), and the three counters of the report count by the same rule
C11_ClassificationRule ==
    LET \* the number of Results of the report that the rule puts in class c
        RuleCount(c) ==
            Cardinality({k \in 1..Len(report.Results) :
                RuleClass(report.Results[k].Error, report.Results[k].StatusCode) = c})
    IN
    /\ \A w \in LinkWorkers :
          how[w[1]][w[2]] \in {"probed", "cached"} =>
              LET r == results[w[1]][w[2]]
              IN  /\ Classification(r) = RuleClass(r.Error, r.StatusCode)
                  /\ r.StatusCode = 299 => Classification(r) = "success"
                  /\ r.StatusCode \in {300, 399} => Classification(r) = "warning"
                  /\ r.StatusCode = 400 => Classification(r) = "broken"
                  /\ (r.StatusCode = 0 /\ r.Error # NoError) => Classification(r) = "broken"
    /\ mainpc \in {"cachelen", "done"} =>
          /\ report.BrokenLinks = RuleCount("broken")
          /\ report.WarningLinks = RuleCount("warning")
          /\ report.SuccessLinks = RuleCount("success")

\* the run has ended; a probe answered 400 was stored and then served from the cache
C11_Witness ==
    /\ mainpc = "done"
    /\ report.BrokenLinks = 2
    /\ \E w \in LinkWorkers :
          how[w[1]][w[2]] = "cached" /\ results[w[1]][w[2]].StatusCode = 400

----------------------------------------------------------------------------
(* The calls of Client.Get and Client.Head *)

\* Client.Head of worker w has returned
HeadReturned(w) == lpc[w[1]][w[2]] \in {"lock", "store"} \/ how[w[1]][w[2]] = "probed"

\* Client.Get of page worker i has returned
GetReturned(i) == ppc[i] \in {"wait", "release", "done"}

\* the error httpClient.Do returns when CheckRedirect refuses a hop
RedirectError == [kind |-> "err", err |-> "stopped after 10 redirects"]

\* all calls of the run, with their histories
Calls == {pcall[i] : i \in Pages} \cup {lcall[w[1]][w[2]] : w \in LinkWorkers}

\* C12: a call makes at most maxRetries+1 attempts; every attempt that another
\* attempt follows has handed a request to httpClient.Do and got a transport
\* error back, so a response of any status code is the end of the call; and the
\* call returns that status with no Error.  The code also goes on to a further
\* attempt when http.NewRequest has failed and no request was sent.
C12_RetryPolicy ==
    /\ \A c \in Calls :
          /\ c.attempt <= cfg.maxRetries
          /\ c.sent <= cfg.maxRetries + 1
          /\ c.attempt <= Len(c.seen)
          /\ \A k \in 1..Len(c.seen) :
                c.seen[k].kind = "resp" => (k = Len(c.seen) /\ c.sent = k)
    /\ \A w \in LinkWorkers :
          LET c == lcall[w[1]][w[2]]
          IN  (HeadReturned(w) /\ Len(c.seen) > 0 /\ c.seen[Len(c.seen)].kind = "resp") =>
                  /\ lresp[w[1]][w[2]].StatusCode = c.seen[Len(c.seen)].StatusCode
                  /\ lresp[w[1]][w[2]].Error = NoError
    /\ \A i \in Pages :
          (GetReturned(i) /\ Len(pcall[i].seen) > 0
             /\ pcall[i].seen[Len(pcall[i].seen)].kind = "resp") =>
              pageErr[i].msg # "failed to fetch page"

\* C13: an attempt that failed on the redirect cap is the last attempt of its call
C13_RedirectCapTerminal ==
    \A c \in Calls :
        \A k \in 1..Len(c.seen) :
            c.seen[k] = RedirectError => c.sent = k

\* C14: every attempt of Get and Head, whether it sends a request or not, has
\* made one Wait, and the Wait that returns takes one token from the bucket; a
\* request is issued in the step in which the Wait of its attempt returns; a
\* retry goes back to the Wait
C14_WaitBeforeEveryAttempt ==
    [][ /\ \A c \in Calls : c.sent <= c.waits
        /\ \A w \in LinkWorkers :
              LET c == lcall[w[1]][w[2]]
                  d == lcall'[w[1]][w[2]]
              IN  /\ c.waits = c.attempt +
                        IF lpc[w[1]][w[2]] = "inflight" \/ HeadReturned(w) THEN 1 ELSE 0
                  /\ d.sent # c.sent => (d.sent = c.sent + 1 /\ d.waits = c.waits + 1)
                  /\ d.waits # c.waits =>
                        /\ d.waits = c.waits + 1
                        /\ rl.tokens >= 1
                        /\ rl'.tokens = rl.tokens - 1
                  /\ d.attempt # c.attempt => lpc'[w[1]][w[2]] = "head"
        /\ \A i \in Pages :
              /\ pcall[i].waits = pcall[i].attempt +
                    IF ppc[i] = "inflight" \/ GetReturned(i) THEN 1 ELSE 0
              /\ pcall'[i].sent # pcall[i].sent =>
                    (pcall'[i].sent = pcall[i].sent + 1 /\ pcall'[i].waits = pcall[i].waits + 1)
              /\ pcall'[i].waits # pcall[i].waits =>
                    /\ pcall'[i].waits = pcall[i].waits + 1
                    /\ rl.tokens >= 1
                    /\ rl'.tokens = rl.tokens - 1
              /\ pcall'[i].attempt # pcall[i].attempt => ppc'[i] = "get" ]_vars

\* the second attempt of a Head call is under way and its Wait has emptied the bucket
C14_Witness ==
    \E w \in LinkWorkers :
        /\ lpc[w[1]][w[2]] = "inflight"
        /\ lcall[w[1]][w[2]].attempt = 1
        /\ lcall[w[1]][w[2]].waits = 2
        /\ rl.requestsPerSecond > 0
        /\ rl.tokens = 0

\* C15: when every one of the maxRetries+1 attempts ended in a transport error,
\* Head returns StatusCode 0 with an Error that wraps the error of the last
\* attempt, and the Result of the link is Broken
C15_ExhaustedRetries ==
    \A w \in LinkWorkers :
        LET c == lcall[w[1]][w[2]]
            resp == lresp[w[1]][w[2]]
        IN  ( /\ HeadReturned(w)
              /\ Len(c.seen) = cfg.maxRetries + 1
              /\ \A k \in 1..Len(c.seen) : c.seen[k].kind = "err" )
            => /\ resp.StatusCode = 0
               /\ resp.Error # NoError
               /\ resp.Error.attempts = cfg.maxRetries + 1
               /\ resp.Error.cause = [msg |-> c.seen[Len(c.seen)].err]
               /\ how[w[1]][w[2]] = "probed" =>
                     /\ results[w[1]][w[2]].IsBroken
                     /\ results[w[1]][w[2]].Error = resp.Error
                     /\ Classification(results[w[1]][w[2]]) = "broken"

\* a link whose two attempts failed, first on a timeout and then on the redirect cap
C15_Witness ==
    \E w \in LinkWorkers :
        /\ how[w[1]][w[2]] = "probed"
        /\ lcall[w[1]][w[2]].seen = <<[kind |-> "err", err |-> "timeout"], RedirectError>>
        /\ results[w[1]][w[2]].IsBroken
        /\ results[w[1]][w[2]].StatusCode = 0

----------------------------------------------------------------------------
(* The RateLimiter *)

\* C16: a limiter made with a rate of 0 or less has requestsPerSecond 0, no
\* generate goroutine and no ticker; a Wait call can always return; Stop closes
\* nothing and stops nothing
C16_Unlimited ==
    (lim.rate <= 0 /\ lim.ctor = "returned") =>
        /\ rl = [requestsPerSecond |-> 0, tokens |-> 0, stopped |-> FALSE]
        /\ lim.gen = "none"
        /\ ~lim.ticking
        /\ lim.once = "idle"
        /\ lim.closes = 0
        /\ lim.tickerStops = 0
        /\ lim.ticks = 0
        /\ \A c \in 1..MaxCallers :
              /\ callers[c].pc # "closed"
              /\ callers[c].pc = "wait" => ENABLED WaitReturn(c)

\* without a limit: of four calls, one Wait and one Stop have returned and two
\* goroutines are in Wait
C16_Witness ==
    /\ lim.rate < 0
    /\ lim.served = 1
    /\ callers[1] = [pc |-> "wait", calls |-> 2]
    /\ callers[2] = [pc |-> "wait", calls |-> 2]

\* C17: with a limit the bucket holds at most one token; a tick on a full bucket
\* leaves it full, a tick on an empty one fills it; a Wait that returns takes one
\* token; and before the first tick at most one Wait has returned
C17_BucketOfOne ==
    [][ rl'.requestsPerSecond > 0 =>
          /\ rl.tokens \in 0..1
          /\ rl'.tokens \in 0..1
          /\ lim'.ticks # lim.ticks =>
                /\ lim'.ticks = lim.ticks + 1
                /\ rl'.tokens = 1
                /\ lim'.served = lim.served
          /\ lim'.served # lim.served =>
                /\ lim'.served = lim.served + 1
                /\ rl.tokens = 1
                /\ rl'.tokens = 0
          /\ lim'.ticks = 0 => lim'.served <= 1 ]_vars

\* two ticks found the bucket full: it holds one token and no Wait has returned
C17_Witness ==
    /\ rl.requestsPerSecond > 0
    /\ lim.ctor = "returned"
    /\ lim.ticks = 2
    /\ lim.served = 0
    /\ rl.tokens = 1

\* C18: the stop channel is closed and the ticker stopped at most once, and exactly
\* once when the once function has run; a goroutine in Stop waits only while
\* another one runs the once function, and that one can always finish it; once
\* the channel is closed the generate goroutine ends
C18_StopOnce ==
    /\ [](/\ lim.closes <= 1
          /\ lim.tickerStops <= 1
          /\ lim.once = "done" =>
                (lim.closes = 1 /\ lim.tickerStops = 1 /\ rl.stopped /\ ~lim.ticking)
          /\ \A c \in 1..MaxCallers :
                /\ callers[c].pc = "stop" =>
                      (lim.once = "running" <=> ~ENABLED StopClose(c))
                /\ callers[c].pc = "closed" => (lim.once = "running" /\ ENABLED StopTicker(c))
          /\ lim.once = "running" => \E c \in 1..MaxCallers : callers[c].pc = "closed")
    /\ rl.stopped ~> (lim.gen = "done")

\* four Stop calls and no other call have returned, two of them made at the same
\* time, and the generate goroutine has ended
C18_Witness ==
    /\ rl.requestsPerSecond > 0
    /\ lim.served = 0
    /\ callers[1] = [pc |-> "idle", calls |-> 2]
    /\ callers[2] = [pc |-> "idle", calls |-> 2]
    /\ lim.closes = 1
    /\ lim.gen = "done"

\* C19: with a limit, the Wait calls that have returned are at most one more
\* than the ticks that generate has taken
C19_RateBound ==
    rl.requestsPerSecond > 0 => lim.served <= 1 + lim.ticks

\* three Wait calls have returned after two ticks and a fourth one waits
C19_Witness ==
    /\ rl.requestsPerSecond > 0
    /\ lim.ticks = 2
    /\ lim.served = 3
    /\ rl.tokens = 0
    /\ \E c \in 1..MaxCallers : callers[c].pc = "wait"

----------------------------------------------------------------------------
(* The report *)

\* C20: in the report ValidateMultiplePages returns, TotalLinks is the number of
\* Results, the three classes add up to it, internal and external links add up
\* to it, UniqueURLs is the number of distinct TargetURL values, and CachedLinks
\* is the number of entries of the cache
C20_ReportTotals ==
    mainpc = "done" =>
        /\ report.TotalLinks = Len(report.Results)
        /\ report.BrokenLinks + report.WarningLinks + report.SuccessLinks = report.TotalLinks
        /\ report.InternalLinks + report.ExternalLinks = report.TotalLinks
        /\ report.UniqueURLs =
              Cardinality({report.Results[k].TargetURL : k \in 1..Len(report.Results)})
        /\ report.CachedLinks = Cardinality(DOMAIN urlCache)

\* a report over three Results, one of each class: two for the same URL and one skipped
C20_Witness ==
    /\ mainpc = "done"
    /\ report.TotalLinks = 3
    /\ report.BrokenLinks = 1
    /\ report.WarningLinks = 1
    /\ report.SuccessLinks = 1
    /\ report.InternalLinks = 1
    /\ report.UniqueURLs = 2
    /\ report.CachedLinks = 1

----------------------------------------------------------------------------
(* The two-page scenario *)

\* C21: the report of the scenario has 3 Results, 1 broken, 2 successes and 2
\* unique URLs, and the Result for UrlOk on page B has the StatusCode and the
\* Duration of the Result for UrlOk on page A, under another SourceURL
C21_Scenario ==
    LET \* the Results of the report for target u found on page p
        ResultsFor(p, u) ==
            {k \in 1..Len(report.Results) :
                report.Results[k].SourceURL = p /\ report.Results[k].TargetURL = u}
    IN
    mainpc = "done" =>
        /\ report.TotalLinks = 3
        /\ report.BrokenLinks = 1
        /\ report.SuccessLinks = 2
        /\ report.UniqueURLs = 2
        /\ \A a \in ResultsFor(PageA, UrlOk), b \in ResultsFor(PageB, UrlOk) :
              /\ report.Results[a].StatusCode = report.Results[b].StatusCode
              /\ report.Results[a].Duration = report.Results[b].Duration
              /\ report.Results[a].SourceURL # report.Results[b].SourceURL

----------------------------------------------------------------------------
(* The command *)

\* C23: a process that ended with a configuration error (a pattern that does not
\* compile, a format that is not supported) has issued no request
C23_ConfigErrorBeforeWork ==
    (cli.pc = "exited" /\ cli.err \in {"invalid exclude pattern", "failed to format report"}) =>
        \A c \in Calls : c.sent = 0

\* C24: the exit code is 0 or 1; it is 0 exactly when run() returned no error and
\* the report has no broken link, and 1 when some Result of the report is broken
\* or a step returned an error
C24_ExitCode ==
    cli.pc = "exited" =>
        /\ cli.exit \in {0, 1}
        /\ cli.exit = 0 <=> (cli.err = "" /\ mainpc = "done" /\ report.BrokenLinks = 0)
        /\ (\E k \in 1..Len(report.Results) : report.Results[k].IsBroken) => cli.exit = 1
        /\ cli.err # "" => cli.exit = 1

\* the process exited with 1 on a report whose only Result is that of a failed page
C24_Witness ==
    /\ cli.pc = "exited"
    /\ cli.exit = 1
    /\ cli.err = ""
    /\ Len(report.Results) = 1
    /\ report.Results[1].SourceURL = "sitemap"

----------------------------------------------------------------------------
(* Termination *)

\* the state in which ValidateMultiplePages has returned
RunReturned ==
    /\ mainpc = "done"
    /\ \A i \in Pages : ppc[i] = "done"
    /\ \A w \in LinkWorkers : lpc[w[1]][w[2]] = "done"
    /\ pageSem = 0
    /\ \A i \in Pages : linkSem[i] = 0
    /\ chanClosed
    /\ resultsChan = <<>>

\* C22: under fair scheduling every run returns a report, whatever fails: every
\* worker has then given its slot back, the channel was closed only after the
\* last page worker finished, and the collecting loop has left the channel empty
C22_RunTerminates ==
    /\ <>RunReturned
    /\ [](mainpc = "done" => RunReturned)
    /\ [](chanClosed => \A i \in Pages : ppc[i] = "done")

\* a returned run in which page B could not be fetched after a retry, for which
\* the bucket had to be refilled, and a probe of page A failed
C22_Witness ==
    /\ RunReturned
    /\ Len(pageURLs) = 2
    /\ pageErr[2] # NoError
    /\ pcall[2].attempt = 1
    /\ \E k \in 1..Len(report.Results) :
          /\ report.Results[k].SourceURL = PageA
          /\ report.Results[k].Error # NoError

----------------------------------------------------------------------------
(* The URL cache *)

\* what a Result says about its target, whoever referenced it
Outcome(r) == [StatusCode |-> r.StatusCode, Status |-> r.Status, Error |-> r.Error,
               IsBroken |-> r.IsBroken]

\* C25: once the cache has an entry for a URL, no step replaces it with an entry
\* of a different outcome
C25_FirstOutcomeStays ==
    [][\A u \in DOMAIN urlCache : Outcome(urlCache'[u]) = Outcome(urlCache[u])]_vars

\* the worker leaves the write lock in this step
Stores(w) == lpc[w[1]][w[2]] = "store" /\ lpc'[w[1]][w[2]] = "release"

\* C26: a worker that probed returns the Result of its own probe, whatever the
\* cache holds; every store makes the cache entry of the URL the Result of the
\* worker that stores, so the entry is that of the last writer; nothing else
\* changes the cache
C26_LastWriterWins ==
    [][ LET \* the Result of the worker's own probe
            OwnResult(w) == ProbedResult(pageURLs[w[1]], LinkOf(w), lresp[w[1]][w[2]])
        IN
        /\ \A w \in LinkWorkers :
              Stores(w) => /\ results'[w[1]][w[2]] = OwnResult(w)
                           /\ urlCache'[LinkOf(w).URL] = OwnResult(w)
        /\ \A w \in LinkWorkers :
              how[w[1]][w[2]] = "probed" =>
                  /\ results[w[1]][w[2]] = OwnResult(w)
                  /\ results'[w[1]][w[2]] = results[w[1]][w[2]]
        /\ urlCache' # urlCache => \E w \in LinkWorkers : Stores(w) ]_vars

\* the race: two workers on different pages have both probed the same URL, with
\* different outcomes, and the cache holds the outcome of one of them
C26_Witness ==
    \E v \in LinkWorkers, w \in LinkWorkers :
        /\ v[1] # w[1]
        /\ LinkOf(v).URL = LinkOf(w).URL
        /\ how[v[1]][v[2]] = "probed"
        /\ how[w[1]][w[2]] = "probed"
        /\ lcall[v[1]][v[2]].sent = 1
        /\ lcall[w[1]][w[2]].sent = 1
        /\ Outcome(results[v[1]][v[2]]) # Outcome(results[w[1]][w[2]])
        /\ Outcome(urlCache[LinkOf(w).URL]) = Outcome(results[w[1]][w[2]])

\* C27: no step removes a key of the cache, and a step that adds a key is the
\* store of a worker whose Head call for that URL has returned
C27_CacheGrows ==
    [][ /\ DOMAIN urlCache \subseteq DOMAIN urlCache'
        /\ \A u \in DOMAIN urlCache' \ DOMAIN urlCache :
              \E w \in LinkWorkers : /\ LinkOf(w).URL = u
                                     /\ Stores(w)
                                     /\ HeadReturned(w)
                                     /\ lcall[w[1]][w[2]].waits > 0 ]_vars

\* the cache has grown twice: it holds the probed outcomes of both URLs
C27_Witness ==
    /\ DOMAIN urlCache = {UrlOk, UrlX}
    /\ \A u \in DOMAIN urlCache :
          \E w \in LinkWorkers : LinkOf(w).URL = u /\ how[w[1]][w[2]] = "probed"

\* the workers between RLock and RUnlock, and those between Lock and Unlock
Readers == {w \in LinkWorkers : lpc[w[1]][w[2]] = "lookup"}
Writers == {w \in LinkWorkers : lpc[w[1]][w[2]] = "store"}

\* C28: the write lock is never held together with a read lock or a second write
\* lock; the lock is held by exactly the workers between lookup and RUnlock,
\* the worker between Lock and Unlock and the final count of the cache, so a
\* worker that left validateLink holds nothing; the cache is read only by a
\* holder of the read lock and written only by the holder of the write lock
C28_ReaderWriterExclusion ==
    /\ [](/\ ~(cacheMutex.writer /\ cacheMutex.readers > 0)
          /\ Cardinality(Writers) <= 1
          /\ cacheMutex.writer <=> Writers # {}
          /\ cacheMutex.readers =
                Cardinality(Readers) + (IF mainpc = "cachelen" THEN 1 ELSE 0)
          /\ mainpc = "done" => cacheMutex = [readers |-> 0, writer |-> FALSE])
    /\ [][ /\ urlCache' # urlCache => cacheMutex.writer /\ ~cacheMutex'.writer
           /\ \A w \in LinkWorkers :
                 (how[w[1]][w[2]] = "none" /\ how'[w[1]][w[2]] = "cached") =>
                     (w \in Readers /\ ~cacheMutex.writer) ]_vars

\* a worker holds the write lock while a second worker waits to write and a
\* third has its lookup still ahead
C28_Witness ==
    /\ cacheMutex.writer
    /\ \E w \in LinkWorkers : lpc[w[1]][w[2]] = "lock"
    /\ \E w \in LinkWorkers : lpc[w[1]][w[2]] = "validate"

----------------------------------------------------------------------------
(* The collected Results *)

\* C29: the statistics are computed in a state in which every page worker has
\* finished and the channel is closed and empty; from then on the Results are
\* complete, nothing lost and nothing twice, and no step changes them
C29_StatisticsAfterJoin ==
    /\ [](LET \* the Results of the report that page i accounts for
              FromPage(i) == SelectSeq(report.Results, LAMBDA r : r.SourceURL = pageURLs[i])
              ForFailedPage(i) ==
                  SelectSeq(report.Results,
                            LAMBDA r : r.SourceURL = "sitemap" /\ r.TargetURL = pageURLs[i])
              \* every page is accounted for exactly: a failed page by its one
              \* synthetic Result, any other page by the Results of its filtered
              \* references, one each
              ResultsComplete ==
                  /\ \A i \in Pages :
                        IF pageErr[i] # NoError
                        THEN /\ ForFailedPage(i) =
                                    <<FailedPageResult(pageURLs[i], pageErr[i])>>
                             /\ FromPage(i) = <<>>
                        ELSE /\ ForFailedPage(i) = <<>>
                             /\ FromPage(i) = results[i]
                             /\ Len(results[i]) = Len(links[i])
                             /\ \A j \in 1..Len(links[i]) :
                                    results[i][j].TargetURL = links[i][j].URL
                  /\ \A k \in 1..Len(report.Results) :
                        \E i \in Pages : \/ report.Results[k].SourceURL = pageURLs[i]
                                          \/ /\ report.Results[k].SourceURL = "sitemap"
                                             /\ report.Results[k].TargetURL = pageURLs[i]
          IN  mainpc # "collect" =>
                  /\ \A i \in Pages : ppc[i] = "done"
                  /\ chanClosed
                  /\ resultsChan = <<>>
                  /\ ResultsComplete)
    /\ [][ /\ (mainpc = "collect" /\ mainpc' # "collect") =>
                 /\ \A i \in Pages : ppc[i] = "done"
                 /\ chanClosed
                 /\ report'.Results = report.Results
                 /\ report' = Statistics(report)
           /\ mainpc # "collect" => report'.Results = report.Results ]_vars

\* a returned run of two pages: page A failed and has its synthetic Result, page
\* B has the one Result of its one reference
C29_Witness ==
    /\ mainpc = "done"
    /\ Len(pageURLs) = 2
    /\ pageErr[1] # NoError
    /\ pageErr[2] = NoError
    /\ Len(links[2]) = 1
    /\ Len(report.Results) = 2
    /\ report.TotalLinks = 2

\* the Results page i contributes to the report: the synthetic Result of a failed
\* page, or its results slice, which is indexed like its filtered references
PageBlock(i) ==
    IF pageErr[i] # NoError THEN <<FailedPageResult(pageURLs[i], pageErr[i])>>
    ELSE results[i]

RECURSIVE Blocks(_, _)
\* the blocks of the first k pages of delivery f, one after the other
Blocks(f, k) == IF k = 0 THEN <<>> ELSE Blocks(f, k - 1) \o PageBlock(f[k])

\* C30: a page worker sends its whole block at the tail of the channel and the
\* collecting loop appends the block at the head of the channel to the Results,
\* so the Results are the blocks of the pages in delivery order; in a returned
\* run they are the blocks of all pages in some order, each block in the order
\* of the page's filtered references
C30_BlocksInDeliveryOrder ==
    /\ [][ LET \* the pages whose pageResult is in the channel, in channel order
               Queued == [k \in 1..Len(resultsChan) |-> resultsChan[k].index + 1]
           IN
           /\ \A i \in Pages :
                 (ppc[i] = "wait" /\ ppc'[i] = "release") =>
                     /\ Queued' = Append(Queued, i)
                     /\ resultsChan'[Len(resultsChan')].results =
                            (IF pageErr[i] # NoError THEN <<>> ELSE results[i])
                     /\ report' = report
           /\ Len(resultsChan') < Len(resultsChan) =>
                 /\ Queued' = Tail(Queued)
                 /\ report'.Results = report.Results \o PageBlock(Head(Queued)) ]_vars
    /\ [](mainpc = "done" =>
            /\ \E f \in {g \in [Pages -> Pages] :
                            \A a \in Pages, b \in Pages : g[a] = g[b] => a = b} :
                  report.Results = Blocks(f, Len(pageURLs))
            /\ \A i \in Pages : \A j \in 1..Len(links[i]) :
                  pageErr[i] = NoError => PageBlock(i)[j].TargetURL = links[i][j].URL)

\* a returned run whose report starts with the block of page B, followed by the
\* two Results of page A in extraction order
C30_Witness ==
    /\ mainpc = "done"
    /\ Len(report.Results) = 3
    /\ report.Results[1].SourceURL = PageB
    /\ report.Results[2].SourceURL = PageA
    /\ report.Results[2].TargetURL = UrlOk
    /\ report.Results[3].SourceURL = PageA
    /\ report.Results[3].TargetURL = UrlX


----------------------------------------------------------------------------
(* The URL matcher *)

MatchesInclude(m, url) == \E k \in 1..Len(m.includePatterns) : url \in m.includePatterns[k]
MatchesExclude(m, url) == \E k \in 1..Len(m.excludePatterns) : url \in m.excludePatterns[k]

\* C31: ShouldCheck(url) is true exactly when no include pattern is defined or
\* one matches, and no exclude pattern matches; a matcher without patterns
\* accepts every URL; a reference is answered with the Skipped Result exactly
\* when ShouldCheck is false
C31_ShouldCheck ==
    LET m == cfg.urlMatcher IN
    /\ \A u \in LinkURLPool :
          ShouldCheck(m, u) <=>
              /\ Len(m.includePatterns) = 0 \/ MatchesInclude(m, u)
              /\ ~MatchesExclude(m, u)
    /\ (Len(m.includePatterns) = 0 /\ Len(m.excludePatterns) = 0) =>
          \A u \in LinkURLPool : ShouldCheck(m, u)
    /\ \A w \in LinkWorkers :
          how[w[1]][w[2]] # "none" =>
              (how[w[1]][w[2]] = "skipped" <=>
                  ~( /\ Len(m.includePatterns) = 0 \/ MatchesInclude(m, LinkOf(w).URL)
                     /\ ~MatchesExclude(m, LinkOf(w).URL) ))

\* a reference whose URL matches an include and an exclude pattern was skipped,
\* while the other reference, which matches an include pattern only, was probed
C31_Witness ==
    \E v \in LinkWorkers, w \in LinkWorkers :
        /\ MatchesInclude(cfg.urlMatcher, LinkOf(v).URL)
        /\ MatchesExclude(cfg.urlMatcher, LinkOf(v).URL)
        /\ how[v[1]][v[2]] = "skipped"
        /\ MatchesInclude(cfg.urlMatcher, LinkOf(w).URL)
        /\ how[w[1]][w[2]] = "probed"


----------------------------------------------------------------------------
(* The RateLimiter: construction and use after Stop *)

\* C32: the initial send of NewRateLimiter can always be made, whatever the
\* generate goroutine has done since it was started, and the limiter is
\* returned with exactly one token
C32_ConstructorReturns ==
    /\ lim.ctor = "send" => ENABLED RLFirstToken
    /\ (lim.ctor = "returned" /\ rl.requestsPerSecond > 0 /\ lim.served = 0) => rl.tokens = 1


\* C33 as stated: once Stop has returned no token is added to the bucket
C33_NoTokenAfterStop ==
    [][(rl.stopped /\ lim.once = "done") => rl'.tokens <= rl.tokens]_vars

\* C33, amended: once the generate goroutine has ended it stays ended and no
\* token is added; a Wait returns after that only by taking the one token that
\* is left, and with the bucket empty no Wait can return
C33_NoTokenAfterGenerateEnds ==
    [][ (rl.requestsPerSecond > 0 /\ lim.gen = "done") =>
          /\ lim'.gen = "done"
          /\ rl'.tokens <= rl.tokens
          /\ rl'.stopped
          /\ lim'.served # lim.served => (rl.tokens = 1 /\ rl'.tokens = 0)
          /\ rl.tokens = 0 => \A c \in 1..MaxCallers : ~ENABLED WaitReturn(c) ]_vars

\* the limiter was stopped while a goroutine was in Wait: generate has ended,
\* the bucket is empty, one Wait has returned and the other goroutine waits
C33_Witness ==
    /\ rl.requestsPerSecond > 0
    /\ rl.stopped
    /\ lim.gen = "done"
    /\ rl.tokens = 0
    /\ lim.served >= 1
    /\ \E c \in 1..MaxCallers : callers[c].pc = "wait"


----------------------------------------------------------------------------
(* Link concurrency 0 *)

\* C34: with a link concurrency of 0 no link worker gets past the semaphore, a
\* page with a filtered reference stays in validateLinksInternal, the channel
\* is not closed and the collecting loop does not end
C34_ZeroConcurrencyBlocks ==
    cfg.concurrency = 0 =>
        /\ \A w \in LinkWorkers : lpc[w[1]][w[2]] = "acquire"
        /\ \A i \in Pages : linkSem[i] = 0
        /\ \A i \in Pages :
              (GetReturned(i) /\ Len(links[i]) >= 1) =>
                  /\ ppc[i] = "wait"
                  /\ ~chanClosed
                  /\ mainpc = "collect"

\* with concurrency 0, page A failed and its Result was collected; page B has one
\* filtered reference, its worker waits for a slot, and nothing can move
C34_Witness ==
    /\ cfg.concurrency = 0
    /\ ppc[1] = "done"
    /\ Len(report.Results) = 1
    /\ ppc[2] = "wait"
    /\ Len(links[2]) = 1
    /\ lpc[2][1] = "acquire"
    /\ ~ENABLED Next


----------------------------------------------------------------------------
(* Results and their references *)

\* C35: the IsExternal of every Result is that of the reference it was made for
C35_IsExternalOfReference ==
    \A w \in LinkWorkers :
        how[w[1]][w[2]] # "none" =>
            /\ results[w[1]][w[2]].IsExternal = LinkOf(w).IsExternal
            /\ results[w[1]][w[2]].IsExternal =
                  isExternalLink(pageURLs[w[1]], results[w[1]][w[2]].TargetURL)


----------------------------------------------------------------------------
(* The cache and the report *)

\* the URLs the report counts in UniqueURLs
Targets == {report.Results[k].TargetURL : k \in 1..Len(report.Results)}

\* the Results of the report that were made without a probe
IsSkipped(r) == r.Status = "Skipped (excluded by pattern)"
IsFailedPage(r) == r.SourceURL = "sitemap"

\* C36 as stated: in the returned report every cached URL is the target of a
\* Result and CachedLinks <= UniqueURLs; the URL of a skipped reference and the
\* URL of a failed page are targets and are not in the cache
C36_CacheWithinReport ==
    mainpc = "done" =>
        /\ DOMAIN urlCache \subseteq Targets
        /\ report.CachedLinks <= report.UniqueURLs
        /\ \A k \in 1..Len(report.Results) :
              (IsSkipped(report.Results[k]) \/ IsFailedPage(report.Results[k])) =>
                  /\ report.Results[k].TargetURL \in Targets
                  /\ report.Results[k].TargetURL \notin DOMAIN urlCache

\* C36, amended: every cached URL was stored by a worker that probed a
\* reference to it; in the returned report every cached URL is the target of a
\* Result and CachedLinks <= UniqueURLs; the URL of a skipped reference is a
\* target and is not in the cache; the URL of a failed page is a target and is
\* in the cache only when a reference to that page was probed
C36_CacheFromProbesOnly ==
    /\ \A u \in DOMAIN urlCache :
          \E w \in LinkWorkers : LinkOf(w).URL = u /\ how[w[1]][w[2]] = "probed"
    /\ mainpc = "done" =>
          /\ DOMAIN urlCache \subseteq Targets
          /\ report.CachedLinks = Cardinality(DOMAIN urlCache)
          /\ report.UniqueURLs = Cardinality(Targets)
          /\ report.CachedLinks <= report.UniqueURLs
          /\ \A k \in 1..Len(report.Results) :
                /\ IsSkipped(report.Results[k]) =>
                      report.Results[k].TargetURL \notin DOMAIN urlCache
                /\ (IsFailedPage(report.Results[k])
                      /\ report.Results[k].TargetURL \in DOMAIN urlCache) =>
                      \E w \in LinkWorkers :
                          /\ LinkOf(w).URL = report.Results[k].TargetURL
                          /\ how[w[1]][w[2]] = "probed"

\* a returned report with a skipped reference and a failed page, two targets
\* and one cached URL: that of the failed page, which page A references
C36_Witness ==
    /\ mainpc = "done"
    /\ \E k \in 1..Len(report.Results) : IsSkipped(report.Results[k])
    /\ \E k \in 1..Len(report.Results) :
          IsFailedPage(report.Results[k]) /\ report.Results[k].TargetURL = PageB
    /\ DOMAIN urlCache = {PageB}
    /\ report.CachedLinks = 1
    /\ report.UniqueURLs = 2


----------------------------------------------------------------------------
(* The cache lock and the probes *)

\* C37: the lock is held for the lookup and for the insert only: while every
\* worker that is neither at the lookup nor at the insert is probing or
\* elsewhere, the lock is free of them, and a worker that wants the read lock
\* or the write lock gets it whatever the probing workers wait for
C37_NoLockOverProbe ==
    /\ cacheMutex.readers = Cardinality(Readers) + (IF mainpc = "cachelen" THEN 1 ELSE 0)
    /\ cacheMutex.writer <=> Writers # {}
    /\ (Readers = {} /\ Writers = {} /\ mainpc = "collect") =>
          /\ cacheMutex = [readers |-> 0, writer |-> FALSE]
          /\ \A v \in LinkWorkers :
                /\ lpc[v[1]][v[2]] = "validate" => ENABLED LinkValidate(v[1], v[2])
                /\ lpc[v[1]][v[2]] = "lock" => ENABLED LinkLock(v[1], v[2])

\* one worker waits for a token before its second attempt while the bucket is
\* empty, and the other worker of the page holds the write lock
C37_Witness ==
    \E v \in {p \in LinkWorkers : lpc[p[1]][p[2]] \in {"head", "inflight"}}, w \in Writers :
        /\ lpc[v[1]][v[2]] = "head"
        /\ lcall[v[1]][v[2]].attempt = 1
        /\ rl.tokens = 0
        /\ cacheMutex.writer


----------------------------------------------------------------------------
(* FilterLinks *)

\* C38: FilterLinks keeps the first occurrence of each URL that passes its tests
\* and keeps the order; the filtered references of a fetched page, and its
\* Results, have pairwise different URLs; two validations of one URL that are
\* under way at the same time belong to different pages
C38_FilterLinks ==
    LET \* the index of the first Link of ls with the URL u
        FirstWith(ls, u) ==
            CHOOSE k \in 1..Len(ls) : ls[k].URL = u /\ \A m \in 1..(k - 1) : ls[m].URL # u

        \* out holds exactly the first occurrences of ls that pass the two tests, each
        \* URL once, in the order of ls
        FirstOccurrencesInOrder(ls, out, includeExternal) ==
            /\ \A k \in 1..Len(out), m \in 1..Len(out) : out[k].URL = out[m].URL => k = m
            /\ \A k \in 1..Len(out) :
                  /\ \E n \in 1..Len(ls) : ls[n].URL = out[k].URL
                  /\ out[k] = ls[FirstWith(ls, out[k].URL)]
            /\ \A k \in 1..Len(out), m \in 1..Len(out) :
                  k < m => FirstWith(ls, out[k].URL) < FirstWith(ls, out[m].URL)
            /\ \A n \in 1..Len(ls) :
                  (\E k \in 1..Len(out) : out[k].URL = ls[n].URL) <=>
                      /\ includeExternal \/ ~ls[FirstWith(ls, ls[n].URL)].IsExternal
                      /\ ~HasSkippedPrefix(ls[n].URL)
        \* the documents FilterLinks is applied to: those of the site and all short ones
        DocsOf(page) ==
            {raw.Body.doc : raw \in {r \in site.get[page] : r.kind = "resp"}} \cup Docs(page)
        \* the Links ExtractLinks returns for a document the page serves
        Extracted(doc, page) ==
            ExtractLinks([ok |-> TRUE, doc |-> doc], page, cfg.skipResources).links
    IN
    /\ \A p \in {PageA, PageB} : \A doc \in DocsOf(p) : \A e \in BOOLEAN :
          FirstOccurrencesInOrder(Extracted(doc, p), FilterLinks(Extracted(doc, p), e), e)
    /\ \A i \in Pages :
          (GetReturned(i) /\ pageErr[i] = NoError) =>
              /\ links[i] = FilterLinks(Extracted(RepeatingDoc(pageURLs[i]), pageURLs[i]),
                                        cfg.checkExternal)
              /\ \A j \in 1..Len(links[i]), k \in 1..Len(links[i]) :
                    links[i][j].URL = links[i][k].URL => j = k
              /\ \A j \in 1..Len(results[i]), k \in 1..Len(results[i]) :
                    (how[i][j] # "none" /\ how[i][k] # "none"
                       /\ results[i][j].TargetURL = results[i][k].TargetURL) => j = k
    /\ \A v \in LinkWorkers, w \in LinkWorkers :
          (v # w /\ LinkOf(v).URL = LinkOf(w).URL
             /\ lpc[v[1]][v[2]] \notin {"acquire", "done"}
             /\ lpc[w[1]][w[2]] \notin {"acquire", "done"}) => v[1] # w[1]

\* page A, which holds five references, has two filtered references, UrlOk
\* before UrlX, and page B has UrlX before UrlOk; the probes of UrlOk of both
\* pages are in flight
C38_Witness ==
    /\ Len(links[1]) = 2
    /\ links[1][1].URL = UrlOk
    /\ links[1][1].Tag = "a"
    /\ links[1][2].URL = UrlX
    /\ Len(links[2]) = 2
    /\ links[2][1].URL = UrlX
    /\ links[2][2].URL = UrlOk
    /\ lpc[1][1] = "inflight"
    /\ lpc[2][2] = "inflight"


----------------------------------------------------------------------------
(* Skipped Results in the statistics *)


\* C39: in the returned report a Skipped Result is neither broken nor a warning;
\* BrokenLinks and WarningLinks count Results that are not skipped, SuccessLinks
\* counts the skipped Results with the other successes, TotalLinks counts them
\* all, and the status histogram has no entry for the status code 0
C39_SkippedCountsAsSuccess ==
    mainpc = "done" =>
        LET rs == report.Results
            SkippedIn(s) == {k \in 1..Len(s) : IsSkipped(s[k])}
            ProbedOrFailedIn(s) == (1..Len(s)) \ SkippedIn(s)
        IN
        /\ \A k \in SkippedIn(rs) :
              /\ rs[k].StatusCode = 0
              /\ ~rs[k].IsBroken
              /\ IsSuccessResult(rs[k])
        /\ report.BrokenLinks =
              Cardinality({k \in ProbedOrFailedIn(rs) : rs[k].IsBroken})
        /\ report.WarningLinks =
              Cardinality({k \in ProbedOrFailedIn(rs) :
                              ~rs[k].IsBroken /\ rs[k].StatusCode \in 300..399})
        /\ report.SuccessLinks =
              Cardinality(SkippedIn(rs))
              + Cardinality({k \in ProbedOrFailedIn(rs) :
                                ~rs[k].IsBroken /\ rs[k].StatusCode \notin 300..399})
        /\ report.TotalLinks = Cardinality(SkippedIn(rs)) + Cardinality(ProbedOrFailedIn(rs))
        /\ 0 \notin DOMAIN report.LinksByStatus
        /\ \A c \in DOMAIN report.LinksByStatus :
              report.LinksByStatus[c] =
                  Cardinality({k \in ProbedOrFailedIn(rs) : rs[k].StatusCode = c})

\* a returned report of three Results: the skipped one is the only success, the
\* other two are broken, and the histogram counts the two of them
C39_Witness ==
    /\ mainpc = "done"
    /\ Cardinality({k \in 1..Len(report.Results) : IsSkipped(report.Results[k])}) = 1
    /\ report.TotalLinks = 3
    /\ report.SuccessLinks = 1
    /\ report.BrokenLinks = 2
    /\ report.WarningLinks = 0
    /\ DOMAIN report.LinksByStatus = {400}
    /\ report.LinksByStatus[400] = 2


----------------------------------------------------------------------------
(* sitemap.Parse *)

RECURSIVE UrlsOf(_, _, _)
\* what Parse(loc) returns while the calls for the locations of underWay are
\* under way.  A urlset returns its URLs.  An index calls Parse for its children
\* in index order and returns the URLs of those that can be loaded and parsed;
\* it returns nothing when the call of a child does not return.  A location
\* whose call is under way is read and parsed as before, and so on without end:
\* nothing is returned
UrlsOf(docs, loc, underWay) ==
    LET doc == docs[loc]
        from[k \in 0..Len(doc.children)] ==
            IF k = 0 THEN [kind |-> "ok", urls |-> <<>>]
            ELSE IF from[k - 1] = NothingReturned THEN NothingReturned
            ELSE LET sub == UrlsOf(docs, doc.children[k], underWay \cup {loc})
                 IN  IF sub = NothingReturned THEN NothingReturned
                     ELSE IF sub.kind = "err" THEN from[k - 1]
                     ELSE [kind |-> "ok", urls |-> from[k - 1].urls \o sub.urls]
    IN  IF loc \in underWay THEN NothingReturned
        ELSE IF doc.kind = "bad" THEN [kind |-> "err", urls |-> <<>>]
        ELSE IF doc.kind = "urlset" THEN [kind |-> "ok", urls |-> Locs(doc.urls)]
        ELSE IF Len(doc.children) = 0 THEN [kind |-> "err", urls |-> <<>>]
        ELSE from[Len(doc.children)]

\* C40: Parse never calls itself for a location whose call is still under way,
\* so every call returns; the call for the root returns the URLs of the
\* children that can be loaded, in index order, a failed child left out
C40_ParseTerminates ==
    /\ \A a \in 1..Len(sm.stack), b \in 1..Len(sm.stack) :
          sm.stack[a].loc = sm.stack[b].loc => a = b
    /\ (sm.docs # <<>> /\ sm.stack = <<>>) => sm.ret = UrlsOf(sm.docs, SitemapRoot, {})

=============================================================================
